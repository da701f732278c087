-------------------------- MODULE SchedulerLockProofs --------------------------
(***************************************************************************)
(* The lock of the scheduler, for any number of contenders, any of them on *)
(* hosts of their own, and any number of deaths, lapses and renewals.      *)
(***************************************************************************)
EXTENDS SchedulerLock, TLAPS

\* Processes that have not published a record of theirs.
New == Waiting \cup {"publish"}

\* Positions at which what a process took aside, if anything, is empty.
Free == {"mkdir", "take", "publish", "starting", "held", "stopping", "cleanup"}

\* A process without a record is in nobody's way; its directory is not there.
NewAreUnknown ==
  \A p \in Processes :
    /\ pc[p] \in New =>
         /\ hb[p] = "off" /\ p \notin lost
         /\ \A d \in Processes : owner[d].by # p /\ seen[d].by # p
    /\ pc[p] \in Waiting =>
         at # p /\ owner[p] = NoRecord /\ \A q \in Processes : aside[q] # p

\* A record is in one directory, and only there does its lease run out.
RecordsAreUnique ==
  /\ \A d, e \in Processes : owner[d] = owner[e] => d = e \/ owner[d] = NoRecord
  /\ \A d \in lapsed : owner[d] # NoRecord

\* The generations of a process rise as long as its heartbeat runs.
GenerationsRise ==
  \A p \in Processes :
    /\ hb[p] \in {"wait", "renew"} =>
         /\ gen[p] >= 1
         /\ \A d \in Processes : /\ owner[d].by = p => owner[d].gen <= gen[p]
                                 /\ seen[d].by = p => seen[d].gen <= gen[p]
    /\ hb[p] = "renew" => gen[p] < MaxGeneration

\* What a waiter saw is stale, and stays so wherever that record is.
SeenIsStale ==
  \A p \in Processes :
    /\ seen[p] # NoRecord <=> pc[p] \in {"take", "judge"}
    /\ \A d \in Processes :
         owner[d] = seen[p] /\ seen[p] # NoRecord => d \in lapsed \/ Dead(seen[p].by)

\* What has been renamed is dealt with before anything else is.
AsideIsKept ==
  \A p \in Processes :
    /\ pc[p] \in {"judge", "putBack", "sort", "restore"} => aside[p] # None
    /\ pc[p] \in Free /\ aside[p] # None => owner[aside[p]] = NoRecord

\* Without a rename in the middle of it a renewal replaces its own record, so
\* that a process has one directory, and none once a waiter has removed it.
RenewalsHit ==
  \A p \in Processes : hb[p] = "renew" => at # None /\ owner[at].by = p

OneDirectoryEach ==
  \A d, e \in Processes : owner[d].by = owner[e].by => d = e \/ owner[d].by = None

LostAreGone == \A d \in Processes : owner[d].by \notin lost

\* Who holds the lock has its record at the path, or its record was taken: in
\* its lease, only by a rename that went astray.
HoldersAreKnown ==
  \A p \in Processes : pc[p] = "held" =>
    \/ Record.by = p
    \/ p \in lost
    \/ \E q \in Processes : /\ aside[q] # None /\ owner[aside[q]].by = p
                            /\ strayed \/ aside[q] \in lapsed

LockInv ==
  /\ TypeOK /\ NewAreUnknown /\ RecordsAreUnique /\ GenerationsRise /\ SeenIsStale
  /\ AsideIsKept
  /\ ~cutIn => RenewalsHit /\ OneDirectoryEach /\ LostAreGone /\ HoldersAreKnown

-----------------------------------------------------------------------------
(* Steps that leave the directories and their records alone.               *)

LEMMA MoveKeeps ==
  ASSUME LockInv, NEW p \in Processes, NEW to \in Positions, pc' = [pc EXCEPT ![p] = to],
         pc[p] # "dead", UNCHANGED <<at, aside, owner, lapsed, lapses, lost, cutIn, strayed>>,
         \/ UNCHANGED <<hb, gen>>
         \/ hb' = [hb EXCEPT ![p] = "off"] /\ gen' = [gen EXCEPT ![p] = 0],
         \/ UNCHANGED seen /\ (to \in {"take", "judge"} <=> pc[p] \in {"take", "judge"})
         \/ seen' = [seen EXCEPT ![p] = NoRecord] /\ to \notin {"take", "judge"},
         to \in New => pc[p] \in New, to \in Waiting => pc[p] \in Waiting,
         to \in {"judge", "putBack", "sort", "restore"} => aside[p] # None,
         to \in Free /\ aside[p] # None => owner[aside[p]] = NoRecord,
         to = "held" => Record.by = p
  PROVE  LockInv'
<1> USE LockAssumption DEF LockInv
<1>1. TypeOK'
  BY DEF TypeOK
<1>2. ASSUME NEW q \in Processes
      PROVE  seen'[q] \in {seen[q], NoRecord} /\ (pc'[q] = pc[q] \/ (q = p /\ pc'[q] = to))
  BY DEF TypeOK
<1>3. NewAreUnknown'
  BY <1>2 DEF TypeOK, NewAreUnknown, New, Waiting, NoRecord
<1>4. RecordsAreUnique' /\ AsideIsKept'
  BY <1>2 DEF RecordsAreUnique, AsideIsKept
<1>5. GenerationsRise'
  <2> SUFFICES ASSUME NEW q \in Processes, hb'[q] \in {"wait", "renew"}
               PROVE  /\ gen'[q] >= 1
                      /\ \A d \in Processes : /\ owner'[d].by = q => owner'[d].gen <= gen'[q]
                                              /\ seen'[d].by = q => seen'[d].gen <= gen'[q]
                      /\ hb'[q] = "renew" => gen'[q] < MaxGeneration
    BY DEF GenerationsRise
  <2>1. hb'[q] = hb[q] /\ gen'[q] = gen[q]
    BY DEF TypeOK
  <2> QED
    BY <1>2, <2>1 DEF GenerationsRise, NoRecord
<1>6. SeenIsStale'
  <2>1. ASSUME NEW x PROVE Dead(x) => Dead(x)'
    BY DEF Dead, TypeOK
  <2>2. ASSUME NEW q \in Processes PROVE seen'[q] # NoRecord <=> pc'[q] \in {"take", "judge"}
    BY DEF SeenIsStale, TypeOK
  <2> QED
    BY <1>2, <2>1, <2>2 DEF SeenIsStale
<1>7. ASSUME ~cutIn'
      PROVE  RenewalsHit' /\ OneDirectoryEach' /\ LostAreGone' /\ HoldersAreKnown'
  <2>1. RenewalsHit /\ OneDirectoryEach /\ LostAreGone /\ HoldersAreKnown
    BY <1>7
  <2>2. RenewalsHit' /\ OneDirectoryEach' /\ LostAreGone'
    BY <2>1 DEF TypeOK, RenewalsHit, OneDirectoryEach, LostAreGone
  <2>3. HoldersAreKnown'
    BY <1>2, <2>1 DEF HoldersAreKnown, Record
  <2> QED
    BY <2>2, <2>3
<1> QED
  BY <1>1, <1>3, <1>4, <1>5, <1>6, <1>7

LEMMA StartedKeeps ==
  ASSUME LockInv, NEW p \in Processes, Started(p)
  PROVE  LockInv'
BY MoveKeeps DEF Started, Owns, Goto, Positions, New, Waiting, LockInv, AsideIsKept, Free,
  pathVars, recordVars, noteVars

LEMMA LetGoKeeps ==
  ASSUME LockInv, NEW p \in Processes, LetGo(p)
  PROVE  LockInv'
BY MoveKeeps DEF LetGo, Positions, Ending, New, Waiting, LockInv, AsideIsKept, Free,
  pathVars, recordVars, noteVars

LEMMA GiveUpKeeps ==
  ASSUME LockInv, NEW p \in Processes, GiveUp(p)
  PROVE  LockInv'
BY MoveKeeps DEF GiveUp, Goto, Positions, New, Waiting, Free, pathVars, recordVars, noteVars

LEMMA StopTimesOutKeeps ==
  ASSUME LockInv, NEW p \in Processes, StopTimesOut(p)
  PROVE  LockInv'
BY MoveKeeps DEF StopTimesOut, Goto, Positions, New, Waiting, Free, pathVars, recordVars, noteVars

LEMMA CrashKeeps ==
  ASSUME LockInv, NEW p \in Processes, Crash(p)
  PROVE  LockInv'
BY MoveKeeps DEF Crash, Positions, New, Waiting, Free, pathVars, recordVars, noteVars

-----------------------------------------------------------------------------
(* Steps that change a directory, its path or its record.                  *)

LEMMA PublishKeeps ==
  ASSUME LockInv, NEW p \in Processes, Publish(p)
  PROVE  LockInv'
<1> USE LockAssumption DEF LockInv, Goto, Record, Dead, NoRecord, pathVars, noteVars
<1>1. p # None /\ hb[p] = "off" /\ pc[p] = "publish"
  BY DEF Publish, NewAreUnknown, New
<1>2. CASE ~(at # None /\ Record = NoRecord)
  <2>1. pc' = [pc EXCEPT ![p] = "cleanup"] /\ UNCHANGED <<at, aside, owner, lapsed, hb, gen, seen, noteVars>>
    BY <1>2 DEF Publish
  <2> QED
    BY <1>1, <2>1, MoveKeeps DEF Positions, Ending, Waiting, New, AsideIsKept, Free
<1>3. CASE at # None /\ Record = NoRecord
  <2> DEFINE r == [by |-> p, gen |-> 1]
  <2>1. /\ owner' = [owner EXCEPT ![at] = r] /\ gen' = [gen EXCEPT ![p] = 1]
        /\ hb' = [hb EXCEPT ![p] = "wait"] /\ pc' = [pc EXCEPT ![p] = "starting"]
        /\ UNCHANGED <<at, aside, lapsed, seen, noteVars>>
    BY <1>3 DEF Publish
  <2>2. /\ at \in Processes /\ owner[at] = NoRecord /\ r \in Records
        /\ 1 \in 0 .. MaxGeneration /\ r.by = p /\ r.gen = 1 /\ r # NoRecord
    BY <1>1, <1>3 DEF TypeOK, Records
  <2> HIDE DEF r
  <2>3. TypeOK'
    BY <2>1, <2>2 DEF TypeOK, Positions, Waiting, Ending
  <2>4. NewAreUnknown' 
    BY <1>1, <2>1, <2>2 DEF TypeOK, NewAreUnknown,  New, Waiting
  <2>5. AsideIsKept'
    BY <1>1, <2>1, <2>2 DEF TypeOK, AsideIsKept,  Free
  <2>6. GenerationsRise'
    BY <1>1, <2>1, <2>2 DEF TypeOK, GenerationsRise, NewAreUnknown, New
  <2>7. RecordsAreUnique'
    BY <1>1, <2>1, <2>2 DEF TypeOK, RecordsAreUnique, NewAreUnknown, New
  <2>8. SeenIsStale'
    BY <1>1, <2>1, <2>2 DEF TypeOK, SeenIsStale, NewAreUnknown, New
  <2>9. ASSUME ~cutIn
        PROVE  RenewalsHit' /\ OneDirectoryEach' /\ LostAreGone' /\ HoldersAreKnown'
    <3>1. RenewalsHit /\ OneDirectoryEach /\ LostAreGone /\ HoldersAreKnown
      BY <2>9
    <3>2. RenewalsHit'
      <4> SUFFICES ASSUME NEW q \in Processes, hb'[q] = "renew" PROVE FALSE
        BY DEF RenewalsHit
      <4>1. q # p /\ hb[q] = "renew"
        BY <2>1 DEF TypeOK
      <4>2. owner[at].by = q
        BY <3>1, <4>1 DEF RenewalsHit
      <4> QED
        BY <2>2, <4>2
    <3>3. OneDirectoryEach'
      BY <1>1, <2>1, <2>2, <3>1 DEF TypeOK, OneDirectoryEach, NewAreUnknown, New
    <3>4. LostAreGone'
      BY <1>1, <2>1, <2>2, <3>1 DEF TypeOK, LostAreGone, NewAreUnknown, New
    <3>5. HoldersAreKnown'
      BY <1>1, <2>1, <2>2, <3>1 DEF TypeOK, HoldersAreKnown
    <3> QED
      BY <3>2, <3>3, <3>4, <3>5
  <2>10. cutIn' = cutIn
    BY <2>1
  <2> QED
    BY <2>3, <2>4, <2>5, <2>6, <2>7, <2>8, <2>9, <2>10
<1> QED
  BY <1>2, <1>3

\* What a waiter sees is where it looked, and nowhere else.
LEMMA LookKeeps ==
  ASSUME LockInv, NEW p \in Processes, Look(p)
  PROVE  LockInv'
<1> USE LockAssumption DEF LockInv, Record
<1> DEFINE r == owner[at]
<1>1. /\ at \in Processes /\ r \in Records /\ r # NoRecord
      /\ at \in lapsed \/ Dead(r.by)
      /\ seen' = [seen EXCEPT ![p] = r] /\ pc' = [pc EXCEPT ![p] = "take"] /\ pc[p] = "mkdir"
      /\ UNCHANGED <<at, aside, owner, lapsed, hb, gen, lapses, lost, cutIn, strayed>>
  BY DEF Look, Stale, Goto, TypeOK, pathVars, recordVars, noteVars
<1>2. TypeOK' /\ AsideIsKept' /\ RecordsAreUnique'
  BY <1>1 DEF TypeOK, Positions, Waiting, AsideIsKept, Free, RecordsAreUnique
<1>3. NewAreUnknown' /\ GenerationsRise'
  BY <1>1 DEF TypeOK, NewAreUnknown, New, Waiting, GenerationsRise
<1>4. SeenIsStale'
  <2>1. ASSUME NEW d \in Processes, owner[d] = r
        PROVE  d \in lapsed \/ Dead(r.by)
    BY <1>1, <2>1 DEF RecordsAreUnique
  <2>2. ASSUME NEW x PROVE Dead(x) => Dead(x)'
    BY <1>1 DEF Dead, TypeOK
  <2> HIDE DEF r
  <2> QED
    BY <1>1, <2>1, <2>2 DEF TypeOK, SeenIsStale
<1>5. ~cutIn => RenewalsHit' /\ OneDirectoryEach' /\ LostAreGone' /\ HoldersAreKnown'
  BY <1>1 DEF TypeOK, RenewalsHit, OneDirectoryEach, LostAreGone, HoldersAreKnown
<1> QED
  BY <1>1, <1>2, <1>3, <1>4, <1>5

\* A directory that is renamed: by a waiter that wants to judge it, or by a
\* process at its end that wants to sort it out.
LEMMA AsideKeeps ==
  ASSUME LockInv, NEW p \in Processes, NEW meant, at # None, Aside(p, meant),
         UNCHANGED <<owner, lapsed, hb, gen, seen>>,
         NEW to \in {"judge", "sort"}, pc' = [pc EXCEPT ![p] = to],
         pc[p] \in {"take", "stopping", "cleanup"}, to = "judge" <=> pc[p] = "take",
         meant => \A q \in Processes : pc[q] = "held" /\ Record.by = q => at \in lapsed
  PROVE  LockInv'
<1> USE LockAssumption DEF LockInv, Record
<1>1. /\ at \in Processes /\ aside' = [aside EXCEPT ![p] = at] /\ at' = None
      /\ cutIn' = (cutIn \/ (owner[at] # NoRecord /\ hb[owner[at].by] = "renew"))
      /\ strayed' = (strayed \/ ~meant) /\ UNCHANGED <<lapses, lost>>
  BY DEF Aside, TypeOK
<1>2. TypeOK'
  <2>1. ASSUME NEW x \in Processes, NEW y \in Processes, aside'[x] # None
        PROVE  aside'[x] # at' /\ (x # y => aside'[x] # aside'[y])
    BY <1>1, <2>1 DEF TypeOK
  <2>2. pc' \in [Processes -> Positions]
    BY <1>1 DEF TypeOK, Positions, Waiting, Ending
  <2> QED
    BY <1>1, <2>1, <2>2 DEF TypeOK
<1>3. NewAreUnknown'
  BY <1>1 DEF TypeOK, NewAreUnknown, New, Waiting
<1>4. RecordsAreUnique' /\ GenerationsRise'
  BY <1>1 DEF TypeOK, RecordsAreUnique, GenerationsRise
<1>5. SeenIsStale'
  <2>1. ASSUME NEW x PROVE Dead(x) => Dead(x)'
    BY <1>1 DEF Dead, TypeOK
  <2> QED
    BY <1>1, <2>1 DEF TypeOK, SeenIsStale
<1>6. AsideIsKept'
  BY <1>1 DEF TypeOK, AsideIsKept, Free
<1>7. ASSUME ~cutIn'
      PROVE  RenewalsHit' /\ OneDirectoryEach' /\ LostAreGone' /\ HoldersAreKnown'
  <2>1. RenewalsHit /\ OneDirectoryEach /\ LostAreGone /\ HoldersAreKnown
    BY <1>1, <1>7
  <2>2. RenewalsHit'
    <3> SUFFICES ASSUME NEW q \in Processes, hb[q] = "renew" PROVE FALSE
      BY DEF RenewalsHit
    <3>1. owner[at].by = q
      BY <2>1 DEF RenewalsHit
    <3> QED
      <4>1. owner[at] # NoRecord
        BY <3>1 DEF NoRecord
      <4>2. hb[owner[at].by] = "renew"
        BY <3>1
      <4> QED
        BY <1>1, <1>7, <4>1, <4>2
  <2>3. OneDirectoryEach' /\ LostAreGone'
    BY <1>1, <2>1 DEF OneDirectoryEach, LostAreGone
  <2>4. HoldersAreKnown'
    <3> SUFFICES ASSUME NEW q \in Processes, pc'[q] = "held", q \notin lost
                 PROVE  \E x \in Processes : /\ aside'[x] # None /\ owner[aside'[x]].by = q
                                             /\ strayed' \/ aside'[x] \in lapsed
      BY <1>1 DEF HoldersAreKnown
    <3>1. pc[q] = "held" /\ q # p
      BY DEF TypeOK
    <3>2. CASE owner[at].by = q
      BY <1>1, <3>1, <3>2 DEF TypeOK
    <3>3. CASE owner[at].by # q
      <4>1. PICK x \in Processes : /\ aside[x] # None /\ owner[aside[x]].by = q
                                   /\ strayed \/ aside[x] \in lapsed
        BY <2>1, <3>1, <3>3, <1>1 DEF HoldersAreKnown
      <4>2. x # p
        BY <4>1 DEF AsideIsKept, Free, NoRecord
      <4> QED
        BY <1>1, <4>1, <4>2 DEF TypeOK
    <3> QED
      BY <3>2, <3>3
  <2> QED
    BY <2>2, <2>3, <2>4
<1> QED
  BY <1>2, <1>3, <1>4, <1>5, <1>6, <1>7

LEMMA TakeKeeps ==
  ASSUME LockInv, NEW p \in Processes, Take(p)
  PROVE  LockInv'
<1>1. CASE at = None
  <2>1. /\ pc[p] = "take" /\ pc' = [pc EXCEPT ![p] = "mkdir"]
        /\ seen' = [seen EXCEPT ![p] = NoRecord]
        /\ UNCHANGED <<at, aside, owner, lapsed, hb, gen, lapses, lost, cutIn, strayed>>
    BY <1>1 DEF Take, Goto, pathVars, recordVars, noteVars
  <2> QED
    BY <2>1, MoveKeeps DEF Positions, Waiting, New, Free, LockInv, AsideIsKept
<1>2. CASE at # None
  <2>1. /\ pc[p] = "take" /\ pc' = [pc EXCEPT ![p] = "judge"] /\ Aside(p, Record = seen[p])
        /\ UNCHANGED <<owner, lapsed, hb, gen, seen>>
    BY <1>2 DEF Take, Goto, recordVars
  <2>2. ASSUME Record = seen[p], NEW q \in Processes, pc[q] = "held", Record.by = q
        PROVE  at \in lapsed
    <3>1. ~Dead(q) /\ seen[p] # NoRecord
      BY <2>1, <2>2 DEF Dead, LockInv, SeenIsStale
    <3> QED
      BY <1>2, <2>2, <3>1 DEF LockInv, TypeOK, SeenIsStale, Record
  <2> QED
    BY <1>2, <2>1, <2>2, AsideKeeps
<1> QED
  BY <1>1, <1>2

LEMMA CleanUpKeeps ==
  ASSUME LockInv, NEW p \in Processes, CleanUp(p)
  PROVE  LockInv'
<1>1. CASE at = None
  <2>1. /\ pc[p] \in {"stopping", "cleanup"} /\ pc' = [pc EXCEPT ![p] = "done"]
        /\ UNCHANGED <<at, aside, owner, lapsed, hb, gen, seen, lapses, lost, cutIn, strayed>>
    BY <1>1 DEF CleanUp, pathVars, recordVars, noteVars
  <2> QED
    BY <2>1, MoveKeeps DEF Positions, Waiting, New, Free
<1>2. CASE at # None
  <2>1. /\ pc[p] \in {"stopping", "cleanup"} /\ pc' = [pc EXCEPT ![p] = "sort"]
        /\ Aside(p, at = p /\ Record.by \in {p, None})
        /\ UNCHANGED <<owner, lapsed, hb, gen, seen>>
    BY <1>2 DEF CleanUp, recordVars
  <2>2. ASSUME Record.by \in {p, None}, NEW q \in Processes, pc[q] = "held" PROVE Record.by # q
    BY <2>1, <2>2, LockAssumption
  <2> QED
    BY <1>2, <2>1, <2>2, AsideKeeps
<1> QED
  BY <1>1, <1>2

\* A directory that is removed: its record and its lease go with it.
LEMMA RemoveKeeps ==
  ASSUME LockInv, NEW p \in Processes, Remove(p), aside[p] # None,
         NEW to \in {"mkdir", "done"}, pc' = [pc EXCEPT ![p] = to],
         pc[p] \in {"judge", "sort"}, to = "mkdir" <=> pc[p] = "judge",
         seen' = [seen EXCEPT ![p] = NoRecord],
         UNCHANGED <<at, lapses, cutIn, strayed>>,
         \/ UNCHANGED <<hb, gen>>
         \/ hb' = [hb EXCEPT ![p] = "off"] /\ gen' = [gen EXCEPT ![p] = 0],
         NEW x \in Processes \cup {None}, x = owner[aside[p]].by,
         \/ lost' = lost \cup {x} /\ x # None
         \/ lost' = lost /\ (x = None \/ pc[x] = "sort")
  PROVE  LockInv'
<1> USE LockAssumption DEF LockInv
<1>1. /\ aside[p] \in Processes /\ aside' = [aside EXCEPT ![p] = None]
      /\ owner' = [owner EXCEPT ![aside[p]] = NoRecord]
      /\ lapsed' = lapsed \ {aside[p]}
      /\ aside[p] # at
  BY DEF Remove, TypeOK
<1>2. TypeOK'
  <2>1. pc' \in [Processes -> Positions] /\ lost' \subseteq Processes
    BY <1>1 DEF TypeOK, Positions, Waiting, Ending
  <2>2. hb' \in [Processes -> {"off", "wait", "renew", "stopped", "failed"}]
        /\ gen' \in [Processes -> 0 .. MaxGeneration]
    BY DEF TypeOK
  <2>3. ASSUME NEW y \in Processes, NEW z \in Processes, aside'[y] # None
        PROVE  aside'[y] # at' /\ (y # z => aside'[y] # aside'[z])
    BY <1>1, <2>3 DEF TypeOK
  <2> QED
    BY <1>1, <2>1, <2>2, <2>3 DEF TypeOK
<1>3. ASSUME NEW d \in Processes
      PROVE  \/ d # aside[p] /\ owner'[d] = owner[d] /\ (d \in lapsed' <=> d \in lapsed)
             \/ d = aside[p] /\ owner'[d] = NoRecord /\ d \notin lapsed'
  BY <1>1 DEF TypeOK
<1>4. ASSUME NEW d \in Processes
      PROVE  seen'[d] \in {seen[d], NoRecord} /\ pc'[d] \in {pc[d], to}
  BY DEF TypeOK
<1>5. NewAreUnknown'
  <2> SUFFICES ASSUME NEW y \in Processes, pc'[y] \in New
               PROVE  /\ hb'[y] = "off" /\ y \notin lost'
                      /\ \A d \in Processes : owner'[d].by # y /\ seen'[d].by # y
                      /\ pc'[y] \in Waiting =>
                           at # y /\ owner'[y] = NoRecord /\ \A q \in Processes : aside'[q] # y
    BY DEF NewAreUnknown, New
  <2>1. pc[y] \in New /\ (pc'[y] \in Waiting => pc[y] \in Waiting)
    BY DEF TypeOK, New, Waiting
  <2>2. /\ hb[y] = "off" /\ y \notin lost
        /\ \A d \in Processes : owner[d].by # y /\ seen[d].by # y
        /\ pc[y] \in Waiting =>
                       at # y /\ owner[y] = NoRecord /\ \A q \in Processes : aside[q] # y
    BY <2>1 DEF NewAreUnknown
  <2>3. hb'[y] = "off" /\ y \notin lost'
    BY <1>1, <2>1, <2>2 DEF TypeOK, New, Waiting
  <2>4. \A d \in Processes : owner'[d].by # y /\ seen'[d].by # y
    BY <1>3, <1>4, <2>2 DEF NoRecord
  <2>5. pc'[y] \in Waiting =>
          at # y /\ owner'[y] = NoRecord /\ \A q \in Processes : aside'[q] # y
    BY <1>1, <1>3, <2>1, <2>2 DEF TypeOK
  <2> QED
    BY <2>3, <2>4, <2>5
<1>6. RecordsAreUnique'
  BY <1>1, <1>3 DEF RecordsAreUnique
<1>7. GenerationsRise'
  <2> SUFFICES ASSUME NEW y \in Processes, hb'[y] \in {"wait", "renew"}
               PROVE  /\ gen'[y] >= 1
                      /\ \A d \in Processes : /\ owner'[d].by = y => owner'[d].gen <= gen'[y]
                                              /\ seen'[d].by = y => seen'[d].gen <= gen'[y]
                      /\ hb'[y] = "renew" => gen'[y] < MaxGeneration
    BY DEF GenerationsRise
  <2>1. hb'[y] = hb[y] /\ gen'[y] = gen[y]
    BY DEF TypeOK
  <2> QED
    BY <1>3, <1>4, <2>1 DEF GenerationsRise, NoRecord
<1>8. SeenIsStale'
  <2>1. ASSUME NEW y PROVE Dead(y) => Dead(y)'
    BY DEF Dead, TypeOK
  <2>2. ASSUME NEW y \in Processes PROVE seen'[y] # NoRecord <=> pc'[y] \in {"take", "judge"}
    BY DEF SeenIsStale, TypeOK
  <2>3. ASSUME NEW y \in Processes, NEW d \in Processes, owner'[d] = seen'[y], seen'[y] # NoRecord
        PROVE  d \in lapsed' \/ Dead(seen[y].by)'
    <3>1. owner[d] = seen[y] /\ seen[y] = seen'[y] /\ (d \in lapsed' <=> d \in lapsed)
      BY <1>3, <1>4, <2>3
    <3> QED
      BY <2>1, <2>3, <3>1 DEF SeenIsStale
  <2> QED
    BY <2>2, <2>3 DEF SeenIsStale
<1>9. AsideIsKept'
  BY <1>1, <1>3 DEF TypeOK, AsideIsKept, Free
<1>10. ASSUME ~cutIn'
      PROVE  RenewalsHit' /\ OneDirectoryEach' /\ LostAreGone' /\ HoldersAreKnown'
  <2>1. RenewalsHit /\ OneDirectoryEach /\ LostAreGone /\ HoldersAreKnown
    BY <1>10
  <2>2. RenewalsHit'
    BY <1>1, <1>3, <2>1 DEF RenewalsHit, TypeOK
  <2>3. OneDirectoryEach'
    BY <1>3, <2>1 DEF OneDirectoryEach, NoRecord
  <2>4. LostAreGone'
    <3> SUFFICES ASSUME NEW d \in Processes PROVE owner'[d].by \notin lost'
      BY DEF LostAreGone
    <3>1. CASE d = aside[p]
      BY <1>2, <1>3, <3>1 DEF TypeOK, NoRecord
    <3>2. CASE d # aside[p]
      BY <1>1, <1>3, <2>1, <3>2 DEF LostAreGone, OneDirectoryEach
    <3> QED
      BY <3>1, <3>2
  <2>5. HoldersAreKnown'
    <3> SUFFICES ASSUME NEW q \in Processes, pc'[q] = "held", ~(Record.by = q)', q \notin lost'
                 PROVE  \E y \in Processes : /\ aside'[y] # None /\ owner'[aside'[y]].by = q
                                             /\ strayed \/ aside'[y] \in lapsed'
      BY DEF HoldersAreKnown
    <3>1. pc[q] = "held" /\ q # p /\ q # x /\ q \notin lost
      BY DEF TypeOK
    <3>2. Record.by # q
      BY <1>1, <1>3 DEF Record, NoRecord, TypeOK
    <3>3. PICK y \in Processes : /\ aside[y] # None /\ owner[aside[y]].by = q
                                 /\ strayed \/ aside[y] \in lapsed
      BY <2>1, <3>1, <3>2 DEF HoldersAreKnown
    <3>4. y # p
      BY <3>1, <3>3
    <3> QED
      BY <1>1, <1>3, <3>3, <3>4 DEF TypeOK
  <2> QED
    BY <2>2, <2>3, <2>4, <2>5
<1> QED
  BY <1>2, <1>5, <1>6, <1>7, <1>8, <1>9, <1>10


LEMMA JudgeKeeps ==
  ASSUME LockInv, NEW p \in Processes, Judge(p)
  PROVE  LockInv'
<1>1. /\ pc[p] = "judge" /\ aside[p] # None /\ aside[p] \in Processes /\ seen[p] # NoRecord
      /\ seen' = [seen EXCEPT ![p] = NoRecord]
      /\ UNCHANGED <<at, hb, gen, lapses, cutIn, strayed>>
  BY DEF Judge, LockInv, TypeOK, AsideIsKept, SeenIsStale
<1>2. CASE IsSeen(p)
  <2> DEFINE x == owner[aside[p]].by
  <2>1. /\ Remove(p) /\ lost' = lost \cup {x} /\ pc' = [pc EXCEPT ![p] = "mkdir"]
    BY <1>2 DEF Judge, IsSeen, Goto
  <2>2. x \in Processes /\ x # None
    BY <1>1, <1>2, LockAssumption DEF IsSeen, LockInv, TypeOK, Records
  <2> QED
    BY <1>1, <2>1, <2>2, RemoveKeeps
<1>3. CASE ~IsSeen(p)
  <2>1. /\ UNCHANGED <<aside, owner, lapsed, lost>>
        /\ \/ owner[aside[p]] = NoRecord /\ pc' = [pc EXCEPT ![p] = "mkdir"]
           \/ pc' = [pc EXCEPT ![p] = "putBack"]
           \/ pc' = [pc EXCEPT ![p] = "done"]
    BY <1>3 DEF Judge, Goto, recordVars
  <2> QED
    BY <1>1, <2>1, MoveKeeps DEF Positions, Waiting, New, Free
<1> QED
  BY <1>2, <1>3

LEMMA SortKeeps ==
  ASSUME LockInv, NEW p \in Processes, Sort(p)
  PROVE  LockInv'
<1>1. /\ pc[p] = "sort" /\ aside[p] # None /\ aside[p] \in Processes /\ seen[p] = NoRecord
      /\ hb' = [hb EXCEPT ![p] = "off"] /\ gen' = [gen EXCEPT ![p] = 0]
      /\ UNCHANGED <<at, seen, lapses, lost, cutIn, strayed>>
  BY DEF Sort, Goto, LockInv, TypeOK, AsideIsKept, SeenIsStale, noteVars
<1>2. seen' = [seen EXCEPT ![p] = NoRecord]
  BY <1>1 DEF LockInv, TypeOK
<1>3. CASE Removable(p)
  <2> DEFINE x == owner[aside[p]].by
  <2>1. Remove(p) /\ pc' = [pc EXCEPT ![p] = "done"]
    BY <1>3 DEF Sort, Goto
  <2>2. x = None \/ x = p
    BY <1>3 DEF Removable, NoRecord
  <2> QED
    BY <1>1, <1>2, <2>1, <2>2, RemoveKeeps
<1>4. CASE ~Removable(p)
  <2>1. /\ UNCHANGED <<aside, owner, lapsed>>
        /\ \/ pc' = [pc EXCEPT ![p] = "restore"]
           \/ pc' = [pc EXCEPT ![p] = "done"]
    BY <1>4 DEF Sort, Goto, recordVars
  <2> QED
    BY <1>1, <2>1, MoveKeeps DEF Positions, Ending, Waiting, New, Free
<1> QED
  BY <1>3, <1>4

LEMMA MakeDirectoryKeeps ==
  ASSUME LockInv, NEW p \in Processes, MakeDirectory(p)
  PROVE  LockInv'
<1> USE LockAssumption DEF LockInv
<1>1. /\ pc[p] = "mkdir" /\ pc' = [pc EXCEPT ![p] = "publish"] /\ at = None /\ at' = p
      /\ UNCHANGED <<aside, owner, lapsed, hb, gen, seen, lapses, lost, cutIn, strayed>>
  BY DEF MakeDirectory, Goto, recordVars, noteVars
<1>2. owner[p] = NoRecord /\ \A q \in Processes : aside[q] # p
  BY <1>1 DEF NewAreUnknown, Waiting
<1>3. TypeOK'
  BY <1>1, <1>2 DEF TypeOK, Positions
<1>4. NewAreUnknown'
  BY <1>1 DEF TypeOK, NewAreUnknown, New, Waiting
<1>5. RecordsAreUnique' /\ GenerationsRise' /\ AsideIsKept'
  BY <1>1 DEF TypeOK, RecordsAreUnique, GenerationsRise, AsideIsKept, Free
<1>6. SeenIsStale'
  BY <1>1 DEF TypeOK, SeenIsStale, Dead
<1>7. ASSUME ~cutIn
      PROVE  RenewalsHit' /\ OneDirectoryEach' /\ LostAreGone' /\ HoldersAreKnown'
  BY <1>1, <1>7
    DEF TypeOK, RenewalsHit, OneDirectoryEach, LostAreGone, HoldersAreKnown, Record, NoRecord
<1> QED
  BY <1>1, <1>3, <1>4, <1>5, <1>6, <1>7

LEMMA PutBackKeeps ==
  ASSUME LockInv, NEW p \in Processes, PutBack(p)
  PROVE  LockInv'
<1> USE LockAssumption DEF LockInv
<1>1. /\ pc[p] \in {"putBack", "restore"} /\ aside[p] # None
      /\ UNCHANGED <<owner, lapsed, hb, gen, seen, lapses, lost, cutIn, strayed>>
  BY DEF PutBack, AsideIsKept, recordVars, noteVars
<1>2. CASE ~MayPutBack
  <2>1. pc' = [pc EXCEPT ![p] = "done"] /\ UNCHANGED <<at, aside>>
    BY <1>2 DEF PutBack, pathVars
  <2> QED
    BY <1>1, <2>1, MoveKeeps DEF Positions, Waiting, New, Free
<1>3. CASE MayPutBack
  <2>1. PICK to \in {"mkdir", "done"} :
          pc' = [pc EXCEPT ![p] = to] /\ (to = "mkdir" => pc[p] = "putBack")
    BY <1>1 DEF PutBack
  <2>2. Record = NoRecord /\ at' = aside[p] /\ aside' = [aside EXCEPT ![p] = None]
    BY <1>3 DEF PutBack, MayPutBack
  <2>3. TypeOK'
    <3>1. ASSUME NEW x \in Processes, NEW y \in Processes, aside'[x] # None
          PROVE  aside'[x] # at' /\ (x # y => aside'[x] # aside'[y])
      BY <2>2, <3>1 DEF TypeOK
    <3>2. pc' \in [Processes -> Positions]
      BY <2>1 DEF TypeOK, Positions, Waiting
    <3> QED
      BY <1>1, <2>2, <3>1, <3>2 DEF TypeOK
  <2>4. NewAreUnknown'
    BY <1>1, <2>1, <2>2 DEF TypeOK, NewAreUnknown, New, Waiting
  <2>5. RecordsAreUnique' /\ GenerationsRise' /\ AsideIsKept'
    BY <1>1, <2>1, <2>2 DEF TypeOK, RecordsAreUnique, GenerationsRise, AsideIsKept, Free
  <2>6. SeenIsStale'
    BY <1>1, <2>1 DEF TypeOK, SeenIsStale, Dead
  <2>7. ASSUME ~cutIn
        PROVE  RenewalsHit' /\ OneDirectoryEach' /\ LostAreGone' /\ HoldersAreKnown'
    <3>1. ASSUME NEW q \in Processes PROVE Record.by # q /\ hb[q] # "renew"
      BY <2>2, <2>7 DEF NoRecord, RenewalsHit, Record
    <3>2. RenewalsHit' /\ OneDirectoryEach' /\ LostAreGone'
      BY <1>1, <2>7, <3>1 DEF RenewalsHit, OneDirectoryEach, LostAreGone
    <3>3. HoldersAreKnown'
      <4> SUFFICES ASSUME NEW q \in Processes, pc'[q] = "held", q \notin lost, ~(Record.by = q)'
                   PROVE  \E y \in Processes : /\ aside'[y] # None /\ owner[aside'[y]].by = q
                                               /\ strayed \/ aside'[y] \in lapsed
        BY <1>1 DEF HoldersAreKnown
      <4>1. PICK y \in Processes : /\ aside[y] # None /\ owner[aside[y]].by = q
                                   /\ strayed \/ aside[y] \in lapsed
        BY <2>1, <2>7, <3>1 DEF HoldersAreKnown, TypeOK
      <4>2. y # p
        BY <1>1, <2>2, <4>1 DEF Record
      <4> QED
        BY <2>2, <4>1, <4>2 DEF TypeOK
    <3> QED
      BY <3>2, <3>3
  <2> QED
    BY <1>1, <2>3, <2>4, <2>5, <2>6, <2>7
<1> QED
  BY <1>2, <1>3

-----------------------------------------------------------------------------
(* The heartbeats and the clock.                                           *)

LEMMA ReadForRenewalKeeps ==
  ASSUME LockInv, NEW p \in Processes, ReadForRenewal(p)
  PROVE  LockInv'
<1> USE LockAssumption DEF LockInv
<1>1. /\ hb[p] = "wait" /\ gen[p] < MaxGeneration
      /\ \/ hb' = [hb EXCEPT ![p] = "renew"] /\ Record.by = p
         \/ hb' = [hb EXCEPT ![p] = "failed"]
      /\ UNCHANGED <<at, aside, owner, lapsed, pc, gen, seen, lapses, lost, cutIn, strayed>>
  <2>1. Record = [by |-> p, gen |-> gen[p]] => Record.by = p
    OBVIOUS
  <2> QED
    BY <2>1 DEF ReadForRenewal, pathVars, recordVars, noteVars
<1>2. TypeOK'
  BY <1>1 DEF TypeOK
<1>3. NewAreUnknown'
  BY <1>1 DEF TypeOK, NewAreUnknown, New, Waiting
<1>4. RecordsAreUnique' /\ GenerationsRise' /\ AsideIsKept'
  BY <1>1 DEF TypeOK, RecordsAreUnique, GenerationsRise, AsideIsKept
<1>5. SeenIsStale'
  BY <1>1 DEF SeenIsStale, Dead
<1>6. ASSUME ~cutIn
      PROVE  RenewalsHit' /\ OneDirectoryEach' /\ LostAreGone' /\ HoldersAreKnown'
  BY <1>1, <1>6
    DEF TypeOK, RenewalsHit, OneDirectoryEach, LostAreGone, HoldersAreKnown, Record, NoRecord
<1> QED
  BY <1>1, <1>2, <1>3, <1>4, <1>5, <1>6

LEMMA StopHeartbeatKeeps ==
  ASSUME LockInv, NEW p \in Processes, StopHeartbeat(p)
  PROVE  LockInv'
<1> USE LockAssumption DEF LockInv
<1>1. /\ hb[p] = "wait" /\ hb' = [hb EXCEPT ![p] = "stopped"]
      /\ UNCHANGED <<at, aside, owner, lapsed, pc, gen, seen, lapses, lost, cutIn, strayed>>
  BY DEF StopHeartbeat, pathVars, recordVars, noteVars
<1>2. TypeOK'
  BY <1>1 DEF TypeOK
<1>3. NewAreUnknown'
  BY <1>1 DEF TypeOK, NewAreUnknown, New, Waiting
<1>4. RecordsAreUnique' /\ GenerationsRise' /\ AsideIsKept'
  BY <1>1 DEF TypeOK, RecordsAreUnique, GenerationsRise, AsideIsKept
<1>5. SeenIsStale'
  BY <1>1 DEF SeenIsStale, Dead
<1>6. ASSUME ~cutIn
      PROVE  RenewalsHit' /\ OneDirectoryEach' /\ LostAreGone' /\ HoldersAreKnown'
  BY <1>1, <1>6
    DEF TypeOK, RenewalsHit, OneDirectoryEach, LostAreGone, HoldersAreKnown, Record
<1> QED
  BY <1>1, <1>2, <1>3, <1>4, <1>5, <1>6

\* The record a renewal writes is a new one, whatever it replaces.
LEMMA RenewKeeps ==
  ASSUME LockInv, NEW p \in Processes, Renew(p)
  PROVE  LockInv'
<1> USE LockAssumption DEF LockInv
<1> DEFINE r == [by |-> p, gen |-> gen[p] + 1]
<1>1. /\ hb[p] = "renew" /\ pc[p] \notin New
      /\ UNCHANGED <<at, aside, pc, seen, lapses, lost, cutIn, strayed>>
  BY DEF Renew, NewAreUnknown, pathVars, noteVars
<1>2. CASE at = None
  <2>1. hb' = [hb EXCEPT ![p] = "failed"] /\ UNCHANGED <<owner, lapsed, gen>>
    BY <1>2 DEF Renew, recordVars
  <2>2. TypeOK' /\ NewAreUnknown' /\ RecordsAreUnique'
    BY <1>1, <2>1 DEF TypeOK, NewAreUnknown, RecordsAreUnique
  <2>3. GenerationsRise' /\ AsideIsKept' /\ SeenIsStale'
    BY <1>1, <2>1 DEF TypeOK, GenerationsRise, AsideIsKept, SeenIsStale, Dead
  <2>4. ASSUME ~cutIn
        PROVE  RenewalsHit' /\ OneDirectoryEach' /\ LostAreGone' /\ HoldersAreKnown'
    BY <1>1, <1>2, <2>1, <2>4 DEF RenewalsHit
  <2> QED
    BY <1>1, <2>2, <2>3, <2>4
<1>3. CASE at # None
  <2>1. /\ hb' = [hb EXCEPT ![p] = "wait"] /\ gen' = [gen EXCEPT ![p] = gen[p] + 1]
        /\ owner' = [owner EXCEPT ![at] = r] /\ lapsed' = lapsed \ {at}
    BY <1>3 DEF Renew, TypeOK
  <2>2. /\ at \in Processes /\ gen[p] \in 1 .. MaxGeneration - 1
        /\ gen[p] + 1 \in 0 .. MaxGeneration /\ r \in Records /\ r.by = p /\ r.gen = gen[p] + 1
    BY <1>1, <1>3 DEF TypeOK, GenerationsRise, Records
  <2>3. r # NoRecord /\ \A d \in Processes : owner[d] # r /\ seen[d] # r
    BY <1>1, <2>2 DEF NoRecord, GenerationsRise
  <2> HIDE DEF r
  <2>4. ASSUME NEW d \in Processes
        PROVE  \/ d # at /\ owner'[d] = owner[d] /\ (d \in lapsed' <=> d \in lapsed)
               \/ d = at /\ owner'[d] = r /\ d \notin lapsed'
    BY <2>1, <2>2 DEF TypeOK
  <2>5. TypeOK'
    BY <1>1, <2>1, <2>2 DEF TypeOK
  <2>6. NewAreUnknown'
    <3> SUFFICES ASSUME NEW q \in Processes, pc[q] \in New
                 PROVE  /\ hb'[q] = "off" /\ q \notin lost
                        /\ \A d \in Processes : owner'[d].by # q /\ seen[d].by # q
                        /\ pc[q] \in Waiting =>
                             at # q /\ owner'[q] = NoRecord /\ \A x \in Processes : aside[x] # q
      BY <1>1 DEF NewAreUnknown, New
    <3>1. q # p /\ hb'[q] = hb[q]
      BY <1>1, <2>1 DEF TypeOK
    <3> QED
      BY <2>2, <2>4, <3>1 DEF NewAreUnknown, New
  <2>7. RecordsAreUnique'
    BY <2>1, <2>3, <2>4 DEF RecordsAreUnique
  <2>8. GenerationsRise'
    <3> SUFFICES ASSUME NEW q \in Processes, hb'[q] \in {"wait", "renew"}
                 PROVE  /\ gen'[q] >= 1
                        /\ \A d \in Processes : /\ owner'[d].by = q => owner'[d].gen <= gen'[q]
                                                /\ seen[d].by = q => seen[d].gen <= gen'[q]
                        /\ hb'[q] = "renew" => gen'[q] < MaxGeneration
      BY <1>1 DEF GenerationsRise
    <3>1. CASE q = p
      <4>1. gen'[q] = gen[p] + 1 /\ hb'[q] = "wait"
        BY <2>1, <3>1 DEF TypeOK
      <4>2. ASSUME NEW x \in Records \cup {NoRecord}, x.by = q => x.gen <= gen[p]
            PROVE  x.by = q => x.gen <= gen[p] + 1
        BY <2>2, <4>2 DEF Records, NoRecord
      <4>3. \A d \in Processes : /\ owner[d] \in Records \cup {NoRecord}
                                 /\ seen[d] \in Records \cup {NoRecord}
                                 /\ owner[d].by = q => owner[d].gen <= gen[p]
                                 /\ seen[d].by = q => seen[d].gen <= gen[p]
        BY <1>1, <3>1 DEF GenerationsRise, TypeOK
      <4>4. \A d \in Processes : owner'[d].by = q => owner'[d].gen <= gen[p] + 1
        BY <2>2, <2>4, <4>2, <4>3
      <4> QED
        BY <2>2, <4>1, <4>2, <4>3, <4>4
    <3>2. CASE q # p
      <4>1. gen'[q] = gen[q] /\ hb'[q] = hb[q]
        BY <2>1, <3>2 DEF TypeOK
      <4> QED
        BY <2>2, <2>4, <3>2, <4>1 DEF GenerationsRise
    <3> QED
      BY <3>1, <3>2
  <2>9. SeenIsStale'
    BY <1>1, <2>3, <2>4 DEF SeenIsStale, Dead
  <2>10. AsideIsKept'
    BY <1>1, <2>4 DEF AsideIsKept, TypeOK
  <2>11. ASSUME ~cutIn
         PROVE  RenewalsHit' /\ OneDirectoryEach' /\ LostAreGone' /\ HoldersAreKnown'
    <3>1. RenewalsHit /\ OneDirectoryEach /\ LostAreGone /\ HoldersAreKnown
      BY <2>11
    <3>2. \A d \in Processes : owner'[d].by = owner[d].by
      BY <1>1, <2>2, <2>4, <3>1 DEF RenewalsHit
    <3>3. RenewalsHit'
      BY <1>1, <2>1, <2>2, <3>1, <3>2 DEF TypeOK, RenewalsHit
    <3>4. OneDirectoryEach' /\ LostAreGone'
      BY <1>1, <3>1, <3>2 DEF OneDirectoryEach, LostAreGone
    <3>5. HoldersAreKnown'
      BY <1>1, <2>2, <2>4, <3>1, <3>2 DEF HoldersAreKnown, Record, TypeOK
    <3> QED
      BY <3>3, <3>4, <3>5
  <2> QED
    BY <1>1, <2>5, <2>6, <2>7, <2>8, <2>9, <2>10, <2>11
<1> QED
  BY <1>2, <1>3

LEMMA LapseKeeps ==
  ASSUME LockInv, Lapse
  PROVE  LockInv'
<1> USE LockAssumption DEF LockInv
<1>1. /\ at \in Processes /\ owner[at] # NoRecord /\ lapsed' = lapsed \cup {at}
      /\ lapses' \in 0 .. MaxLapses
      /\ UNCHANGED <<at, aside, owner, pc, hb, gen, seen, lost, cutIn, strayed>>
  BY DEF Lapse, Record, TypeOK, pathVars
<1>2. TypeOK' /\ NewAreUnknown' /\ RecordsAreUnique'
  BY <1>1 DEF TypeOK, NewAreUnknown, RecordsAreUnique
<1>3. GenerationsRise' /\ SeenIsStale' /\ AsideIsKept'
  BY <1>1 DEF GenerationsRise, SeenIsStale, AsideIsKept, Dead
<1>4. ASSUME ~cutIn
      PROVE  RenewalsHit' /\ OneDirectoryEach' /\ LostAreGone' /\ HoldersAreKnown'
  BY <1>1, <1>4 DEF RenewalsHit, OneDirectoryEach, LostAreGone, HoldersAreKnown, Record
<1> QED
  BY <1>1, <1>2, <1>3, <1>4

-----------------------------------------------------------------------------
(* The invariant, and what it says.                                        *)

LEMMA InitLocked == Init => LockInv
<1> SUFFICES ASSUME Init PROVE LockInv
  OBVIOUS
<1>1. TypeOK
  <2>1. 0 \in 0 .. MaxGeneration /\ 0 \in 0 .. MaxLapses
    BY LockAssumption
  <2>2. {cutIn, strayed} \subseteq BOOLEAN /\ lapsed \subseteq Processes /\ lost \subseteq Processes
    BY DEF Init
  <2>3. pc \in [Processes -> Positions]
    BY DEF Init, Positions, Waiting
  <2> QED
    BY <2>1, <2>2, <2>3 DEF Init, TypeOK
<1>2. NewAreUnknown /\ RecordsAreUnique /\ GenerationsRise /\ SeenIsStale /\ AsideIsKept
  BY LockAssumption DEF Init, NewAreUnknown, RecordsAreUnique, GenerationsRise, SeenIsStale,
    AsideIsKept, NoRecord
<1>3. RenewalsHit /\ OneDirectoryEach /\ LostAreGone /\ HoldersAreKnown
  BY DEF Init, RenewalsHit, OneDirectoryEach, LostAreGone, HoldersAreKnown, NoRecord
<1> QED
  BY <1>1, <1>2, <1>3 DEF LockInv

LEMMA StutterKeeps == LockInv /\ UNCHANGED vars => LockInv'
BY DEF vars, pathVars, recordVars, noteVars, LockInv, TypeOK, NewAreUnknown, RecordsAreUnique,
  GenerationsRise, SeenIsStale, AsideIsKept, RenewalsHit, OneDirectoryEach, LostAreGone,
  HoldersAreKnown, Record, Dead

LEMMA NextKeeps == LockInv /\ [Next]_vars => LockInv'
<1>1. ASSUME LockInv, NEW p \in Processes, Wait(p) \/ GiveUp(p) PROVE LockInv'
  BY <1>1, MakeDirectoryKeeps, LookKeeps, TakeKeeps, JudgeKeeps, PutBackKeeps, GiveUpKeeps
    DEF Wait
<1>2. ASSUME LockInv, NEW p \in Processes, Hold(p) \/ End(p) PROVE LockInv'
  BY <1>2, PublishKeeps, StartedKeeps, LetGoKeeps, StopTimesOutKeeps, CleanUpKeeps, SortKeeps
    DEF Hold, End
<1>3. ASSUME LockInv, NEW p \in Processes, Heartbeat(p) \/ Crash(p) PROVE LockInv'
  BY <1>3, ReadForRenewalKeeps, RenewKeeps, StopHeartbeatKeeps, CrashKeeps DEF Heartbeat
<1> QED
  BY <1>1, <1>2, <1>3, LapseKeeps, StutterKeeps DEF Next

\* However waiters, holders, heartbeats and the clock interleave, what a waiter
\* saw stays stale, and a holder is at the path or was taken.
THEOREM LockInvariant == Spec => []LockInv
<1>1. Init => LockInv
  BY InitLocked
<1>2. LockInv /\ [Next]_vars => LockInv'
  BY NextKeeps
<1> QED
  BY <1>1, <1>2, PTL DEF Spec

\* A directory is at the path or with one process that renamed it, never both,
\* and no renewal goes beyond the last generation.
THEOREM TypeCorrect == Spec => []TypeOK
<1>1. LockInv => TypeOK
  BY DEF LockInv
<1> QED
  BY <1>1, LockInvariant, PTL

\* Of two processes that both believe to hold the scheduler's lock, one has had
\* its directory taken after its lease ran out.
THEOREM HoldersExcludeEachOther == Spec => []HoldersExclude
<1>1. LockInv => HoldersExclude
  <2> SUFFICES ASSUME LockInv, ~strayed, ~cutIn, NEW p \in Processes, NEW q \in Processes,
                      pc[p] = "held", pc[q] = "held", p # q
               PROVE  TakenFrom(p) \/ TakenFrom(q)
    BY DEF HoldersExclude
  <2>1. HoldersAreKnown
    BY DEF LockInv
  <2>2. ASSUME NEW x \in Processes, pc[x] = "held", Record.by # x PROVE TakenFrom(x)
    BY <2>1, <2>2 DEF HoldersAreKnown, TakenFrom
  <2> QED
    BY <2>2
<1> QED
  BY <1>1, LockInvariant, PTL

\* The lock does not come back to a process a waiter has taken it from, by a
\* renewal or by a directory put back.
THEOREM LostStaysLost == Spec => []LostLocksStayLost
<1>1. LockInv => LostLocksStayLost
  BY LockAssumption
    DEF LockInv, TypeOK, LostLocksStayLost, LostAreGone, Record, NoRecord
<1> QED
  BY <1>1, LockInvariant, PTL

\* Only the owner deletes a record in its lease: between the look, the rename and
\* the comparison of a waiter, what was stale has not come alive.
THEOREM LiveRecordsStay == Spec => LiveRecordsAreNotDeleted
<1> DEFINE Deleted(d) == owner[d] # NoRecord /\ owner'[d] = NoRecord
           Excused(d) == Dead(owner[d].by) \/ d \in lapsed \/ pc[owner[d].by] = "sort"
<1>1. ASSUME LockInv, [Next]_vars, NEW d \in Processes, Deleted(d)
      PROVE  Excused(d)
  <2>1. \/ \E p \in Processes : Publish(p) \/ Renew(p)
        \/ \E p \in Processes : Judge(p) \/ Sort(p)
        \/ UNCHANGED owner
    BY <1>1 DEF Next, Wait, Hold, End, Heartbeat, MakeDirectory, Look, Take, PutBack, GiveUp,
      Started, LetGo, StopTimesOut, CleanUp, ReadForRenewal, StopHeartbeat, Lapse, Crash,
      vars, recordVars
  <2>2. ASSUME NEW p \in Processes, Publish(p) \/ Renew(p) PROVE FALSE
    <3>1. owner' = owner \/ \E g : owner' = [owner EXCEPT ![at] = [by |-> p, gen |-> g]]
      BY <2>2 DEF Publish, Renew, recordVars
    <3>2. \A g : [by |-> p, gen |-> g] # NoRecord
      BY LockAssumption DEF NoRecord
    <3> QED
      BY <1>1, <3>1, <3>2 DEF LockInv, TypeOK
  <2>3. ASSUME NEW p \in Processes, Judge(p) PROVE Excused(d)
    <3>1. owner[d] = seen[p] /\ seen[p] # NoRecord
      BY <1>1, <2>3 DEF Judge, IsSeen, Remove, recordVars, LockInv, TypeOK
    <3> QED
      BY <1>1, <3>1 DEF LockInv, SeenIsStale
  <2>4. ASSUME NEW p \in Processes, Sort(p) PROVE Excused(d)
    <3>1. d = aside[p] /\ Removable(p) /\ pc[p] = "sort"
      BY <1>1, <2>4 DEF Sort, Goto, Remove, recordVars, LockInv, TypeOK
    <3> QED
      BY <1>1, <3>1 DEF Removable
  <2> QED
    BY <1>1, <2>1, <2>2, <2>3, <2>4
<1>2. ASSUME LockInv, [Next]_vars
      PROVE  [\A d \in Processes :
                owner[d] # NoRecord /\ owner'[d] = NoRecord =>
                  \/ Dead(owner[d].by) \/ d \in lapsed
                  \/ pc[owner[d].by] = "sort"]_vars
  BY <1>1, <1>2
<1> QED
  BY <1>2, LockInvariant, PTL DEF Spec, LiveRecordsAreNotDeleted
================================================================================
