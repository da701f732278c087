----------------------------- MODULE SchedulerLock -----------------------------
(***************************************************************************)
(* The lock of the eligible-set scheduler: a directory with an owner       *)
(* record that its holder's heartbeat thread renews under rising           *)
(* generations.  A waiter takes the directory of a dead or lapsed holder   *)
(* aside, compares the record with what it saw, and removes the directory  *)
(* or puts it back.  Before each durable write the holder reads the record *)
(* and goes on only if it is still its own.                                *)
(*                                                                         *)
(* A process stands for one acquisition, so its name is the record's       *)
(* nonce, and the directory it makes goes by its name too.  A directory is *)
(* always addressed by the path: who holds it now need not be who was      *)
(* looked at.                                                              *)
(***************************************************************************)
EXTENDS Integers, FiniteSets

CONSTANTS
  Processes,     \* acquisitions, each by a process of its own
  Remote,        \* those on hosts of their own, whose pids nobody can probe
  MaxCrashes, MaxLapses, MaxGeneration, \* bounds of the deaths, lapses and renewals
  None

ASSUME LockAssumption ==
  /\ Remote \subseteq Processes /\ None \notin Processes
  /\ MaxCrashes \in Nat /\ MaxLapses \in Nat /\ MaxGeneration \in Nat \ {0}

VARIABLES
  at,      \* the directory that has the lock's path
  aside,   \* the directory each process has renamed and not dealt with yet
  owner,   \* the owner record in each directory
  lapsed,  \* directories whose record's expiresAt the clock has reached
  pc,      \* where each process is
  hb,      \* where its heartbeat thread is
  gen,     \* the generation the two of them agree on
  seen,    \* the record a waiter decided to remove
  lapses,
  lost,    \* processes whose record a waiter removed
  cutIn,   \* whether a directory was renamed in the middle of its renewal
  strayed  \* whether a directory was renamed that was not the one meant

pathVars == <<at, aside>>
recordVars == <<owner, lapsed>>
noteVars == <<lapses, lost, cutIn, strayed>>
vars == <<pathVars, recordVars, pc, hb, gen, seen, noteVars>>

Records == [by : Processes, gen : 1 .. MaxGeneration]
NoRecord == [by |-> None, gen |-> 0]

Waiting == {"mkdir", "take", "judge", "putBack"}
Ending == {"stopping", "cleanup", "sort", "restore"}
Positions == Waiting \cup Ending \cup {"publish", "starting", "held", "done", "dead"}

Dead(p) == pc[p] = "dead"
Goto(p, from, to) == pc[p] = from /\ pc' = [pc EXCEPT ![p] = to]

\* What reading owner.json yields; a directory without it yields nothing.
Record == IF at = None THEN NoRecord ELSE owner[at]

SameHost(p, q) == p \notin Remote /\ q \notin Remote

\* Mutant: only dead processes of this host are looked for.
FaultyStale(p) == Record # NoRecord /\ SameHost(p, Record.by) /\ Dead(Record.by)

\* staleOwner
Stale(p) ==
  /\ Record # NoRecord
  /\ at \in lapsed \/ (SameHost(p, Record.by) /\ Dead(Record.by))

Init ==
  /\ at = None /\ aside = [p \in Processes |-> None]
  /\ owner = [p \in Processes |-> NoRecord] /\ lapsed = {}
  /\ pc = [p \in Processes |-> "mkdir"]
  /\ hb = [p \in Processes |-> "off"] /\ gen = [p \in Processes |-> 0]
  /\ seen = [p \in Processes |-> NoRecord]
  /\ lapses = 0 /\ lost = {} /\ cutIn = FALSE /\ strayed = FALSE

-----------------------------------------------------------------------------
\* Mutant: a directory that exists is no error.
FaultyMakeDirectory(p) ==
  /\ at' = p
  /\ Goto(p, "mkdir", "publish")
  /\ UNCHANGED <<aside, recordVars, hb, gen, seen, noteVars>>

\* acquireSchedulerLock
MakeDirectory(p) ==
  /\ at = None /\ at' = p
  /\ Goto(p, "mkdir", "publish")
  /\ UNCHANGED <<aside, recordVars, hb, gen, seen, noteVars>>

\* The record is created by path and never replaces one.
Publish(p) ==
  /\ IF at # None /\ Record = NoRecord
     THEN /\ owner' = [owner EXCEPT ![at] = [by |-> p, gen |-> 1]]
          /\ gen' = [gen EXCEPT ![p] = 1] /\ hb' = [hb EXCEPT ![p] = "wait"]
          /\ Goto(p, "publish", "starting")
     ELSE Goto(p, "publish", "cleanup") /\ UNCHANGED <<owner, gen, hb>>
  /\ UNCHANGED <<pathVars, lapsed, seen, noteVars>>

\* confirmedHeartbeatOwner: the record is this process's, in the generation
\* its heartbeat announced last, and has not run out.
Owns(p) == Record = [by |-> p, gen |-> gen[p]] /\ at \notin lapsed

Started(p) ==
  /\ gen[p] > 1 /\ hb[p] # "failed" /\ Owns(p)
  /\ Goto(p, "starting", "held")
  /\ UNCHANGED <<pathVars, recordVars, hb, gen, seen, noteVars>>

\* The holder has finished, or its guard refuses before a write, or the start
\* has timed out.  It may be refused although it holds the lock, when a renewal
\* falls between the reading of the record and of the generation.
LetGo(p) ==
  /\ pc[p] \in {"starting", "held"}
  /\ pc' = [pc EXCEPT ![p] = "stopping"]
  /\ UNCHANGED <<pathVars, recordVars, hb, gen, seen, noteVars>>

-----------------------------------------------------------------------------
\* Who finds the directory there reads its record, a second time when it is
\* stale: the second reading decides.  Any other record is waited for.
Look(p) ==
  /\ at # None /\ Stale(p)
  /\ seen' = [seen EXCEPT ![p] = Record]
  /\ Goto(p, "mkdir", "take")
  /\ UNCHANGED <<pathVars, recordVars, hb, gen, noteVars>>

GiveUp(p) ==
  /\ at # None /\ ~Stale(p)
  /\ Goto(p, "mkdir", "done")
  /\ UNCHANGED <<pathVars, recordVars, hb, gen, seen, noteVars>>

\* The rename takes the directory that has the path, whoever's it is by now.
Aside(p, meant) ==
  /\ aside' = [aside EXCEPT ![p] = at] /\ at' = None
  /\ cutIn' = (cutIn \/ (Record # NoRecord /\ hb[Record.by] = "renew"))
  /\ strayed' = (strayed \/ ~meant)
  /\ UNCHANGED <<lapses, lost>>

Take(p) ==
  /\ IF at = None
     THEN /\ Goto(p, "take", "mkdir") /\ seen' = [seen EXCEPT ![p] = NoRecord]
          /\ UNCHANGED <<pathVars, noteVars>>
     ELSE Goto(p, "take", "judge") /\ Aside(p, Record = seen[p]) /\ UNCHANGED seen
  /\ UNCHANGED <<recordVars, hb, gen>>

Remove(p) ==
  /\ aside' = [aside EXCEPT ![p] = None]
  /\ owner' = [owner EXCEPT ![aside[p]] = NoRecord]
  /\ lapsed' = lapsed \ {aside[p]}

\* Mutant: the owner is compared, and not the generation.
FaultyIsSeen(p) == owner[aside[p]].by = seen[p].by

\* Only the very record that was seen is removed.
IsSeen(p) == owner[aside[p]] = seen[p]

Judge(p) ==
  /\ pc[p] = "judge"
  /\ IF IsSeen(p)
     THEN /\ Remove(p) /\ lost' = lost \cup {seen[p].by} /\ Goto(p, "judge", "mkdir")
     ELSE /\ CASE owner[aside[p]] = NoRecord -> Goto(p, "judge", "mkdir")
               [] owner[aside[p]] # NoRecord /\ at = None -> Goto(p, "judge", "putBack")
               [] OTHER -> Goto(p, "judge", "done")
          /\ UNCHANGED <<aside, recordVars, lost>>
  /\ seen' = [seen EXCEPT ![p] = NoRecord]
  /\ UNCHANGED <<at, hb, gen, lapses, cutIn, strayed>>

\* A directory that is empty gives way to the one put back.
MayPutBack == Record = NoRecord
PutBack(p) ==
  /\ pc[p] \in {"putBack", "restore"}
  /\ pc' = [pc EXCEPT ![p] = IF MayPutBack /\ pc[p] = "putBack" THEN "mkdir" ELSE "done"]
  /\ IF MayPutBack THEN at' = aside[p] /\ aside' = [aside EXCEPT ![p] = None]
     ELSE UNCHANGED pathVars
  /\ UNCHANGED <<recordVars, hb, gen, seen, noteVars>>

-----------------------------------------------------------------------------
\* The end of a holding, and of an acquisition that failed: a heartbeat that does not answer leaves the lock to its lease.
StopTimesOut(p) ==
  /\ hb[p] \in {"wait", "renew"}
  /\ Goto(p, "stopping", "done")
  /\ UNCHANGED <<pathVars, recordVars, hb, gen, seen, noteVars>>

\* cleanupCreatedLock, once the heartbeat has stopped
CleanUp(p) ==
  /\ pc[p] = "cleanup" \/ (pc[p] = "stopping" /\ hb[p] \in {"stopped", "failed"})
  /\ pc' = [pc EXCEPT ![p] = IF at = None THEN "done" ELSE "sort"]
  /\ IF at = None THEN UNCHANGED <<pathVars, noteVars>>
     ELSE Aside(p, at = p /\ Record.by \in {p, None})
  /\ UNCHANGED <<recordVars, hb, gen, seen>>

Removable(p) ==
  LET r == owner[aside[p]] IN
  IF r = NoRecord THEN hb[p] = "off" ELSE r.by = p /\ r.gen \in {1, gen[p]}

Sort(p) ==
  /\ pc[p] = "sort"
  /\ IF Removable(p) THEN Remove(p) /\ Goto(p, "sort", "done")
     ELSE /\ Goto(p, "sort", IF at = None THEN "restore" ELSE "done")
          /\ UNCHANGED <<aside, recordVars>>
  /\ hb' = [hb EXCEPT ![p] = "off"] /\ gen' = [gen EXCEPT ![p] = 0]
  /\ UNCHANGED <<at, seen, noteVars>>

-----------------------------------------------------------------------------
\* The heartbeat thread
StopAsked(p) == pc[p] \in {"stopping", "done"}

\* Mutant: whoever's record is there is renewed.
FaultyReadForRenewal(p) ==
  /\ hb[p] = "wait" /\ gen[p] < MaxGeneration
  /\ hb' = [hb EXCEPT ![p] = "renew"]
  /\ UNCHANGED <<pathVars, recordVars, pc, gen, seen, noteVars>>

ReadForRenewal(p) ==
  /\ hb[p] = "wait" /\ gen[p] < MaxGeneration
  /\ hb' = [hb EXCEPT ![p] = IF Record = [by |-> p, gen |-> gen[p]] THEN "renew" ELSE "failed"]
  /\ UNCHANGED <<pathVars, recordVars, pc, gen, seen, noteVars>>

\* The new record replaces whatever record the path has now, and its
\* generation is announced.
Renew(p) ==
  /\ hb[p] = "renew"
  /\ IF at = None THEN hb' = [hb EXCEPT ![p] = "failed"] /\ UNCHANGED <<recordVars, gen>>
     ELSE /\ hb' = [hb EXCEPT ![p] = "wait"]
          /\ gen' = [gen EXCEPT ![p] = @ + 1]
          /\ owner' = [owner EXCEPT ![at] = [by |-> p, gen |-> gen[p] + 1]]
          /\ lapsed' = lapsed \ {at}
  /\ UNCHANGED <<pathVars, pc, seen, noteVars>>

StopHeartbeat(p) ==
  /\ hb[p] = "wait" /\ StopAsked(p)
  /\ hb' = [hb EXCEPT ![p] = "stopped"]
  /\ UNCHANGED <<pathVars, recordVars, pc, gen, seen, noteVars>>

-----------------------------------------------------------------------------
\* The clock reaches the record's expiresAt: of a lock in use rarely, of one
\* that nobody renews for certain.
Abandoned(p) == p # None /\ pc[p] \in {"dead", "done"}
Lapse ==
  /\ Record # NoRecord /\ at \notin lapsed
  /\ Abandoned(Record.by) \/ lapses < MaxLapses
  /\ lapsed' = lapsed \cup {at}
  /\ lapses' = IF Abandoned(Record.by) THEN lapses ELSE lapses + 1
  /\ UNCHANGED <<pathVars, owner, pc, hb, gen, seen, lost, cutIn, strayed>>

\* The death of a process that has done nothing yet makes no difference.
Crash(p) ==
  /\ pc[p] \notin {"mkdir", "take", "done", "dead"}
  /\ Cardinality({q \in Processes : Dead(q)}) < MaxCrashes
  /\ pc' = [pc EXCEPT ![p] = "dead"] /\ hb' = [hb EXCEPT ![p] = "off"]
  /\ gen' = [gen EXCEPT ![p] = 0] /\ seen' = [seen EXCEPT ![p] = NoRecord]
  /\ UNCHANGED <<pathVars, recordVars, noteVars>>

Wait(p) == MakeDirectory(p) \/ Look(p) \/ Take(p) \/ Judge(p) \/ PutBack(p)
Hold(p) == Publish(p) \/ Started(p) \/ LetGo(p)
End(p) == StopTimesOut(p) \/ CleanUp(p) \/ Sort(p)
Heartbeat(p) == ReadForRenewal(p) \/ Renew(p) \/ StopHeartbeat(p)

Next == \E p \in Processes :
  \/ Wait(p) \/ GiveUp(p) \/ Hold(p) \/ End(p) \/ Heartbeat(p)
  \/ Lapse \/ Crash(p)

Spec == Init /\ [][Next]_vars

\* Who waits goes on trying until its time is up, and the clock reaches the
\* expiry of a record nobody renews.  Nothing else needs to happen.
FairSpec ==
  /\ Spec
  /\ \A p \in Processes : WF_vars(Wait(p))
  /\ WF_vars(Abandoned(Record.by) /\ Lapse)

-----------------------------------------------------------------------------
\* Every variable keeps its type; a directory is in one place only.
TypeOK ==
  /\ at \in Processes \cup {None}
  /\ aside \in [Processes -> Processes \cup {None}]
  /\ owner \in [Processes -> Records \cup {NoRecord}] /\ lapsed \subseteq Processes
  /\ pc \in [Processes -> Positions]
  /\ hb \in [Processes -> {"off", "wait", "renew", "stopped", "failed"}]
  /\ gen \in [Processes -> 0 .. MaxGeneration]
  /\ seen \in [Processes -> Records \cup {NoRecord}]
  /\ lapses \in 0 .. MaxLapses /\ lost \subseteq Processes /\ {cutIn, strayed} \subseteq BOOLEAN
  /\ \A p, q \in Processes :
       aside[p] # None => aside[p] # at /\ (p # q => aside[p] # aside[q])

\* The directory of p was taken after its lease had run out.
TakenFrom(p) ==
  \/ p \in lost
  \/ \E q \in Processes : aside[q] \in lapsed /\ owner[aside[q]].by = p

\* Two processes are never both between their first and their last look at
\* the scheduler's stores unless the directory of one was taken, lapsed as it
\* was: as long as every rename took the directory it meant.
HoldersExclude ==
  ~strayed /\ ~cutIn => \A p, q \in Processes :
    pc[p] = "held" /\ pc[q] = "held" => p = q \/ TakenFrom(p) \/ TakenFrom(q)

\* A record whose owner is alive and whose lease runs is never deleted except
\* by its owner, in whatever order waiters look, rename and compare.
LiveRecordsAreNotDeleted == [][\A d \in Processes :
  owner[d] # NoRecord /\ owner'[d] = NoRecord =>
    \/ Dead(owner[d].by) \/ d \in lapsed
    \/ pc[owner[d].by] = "sort"]_vars

\* Who has lost the lock to a waiter does not get it back, unless the waiter
\* cut into a renewal.
LostLocksStayLost ==
  ~cutIn => \A p \in lost : Record.by # p

\* A lock whose owner has died, or has gone without its heartbeat's answer,
\* does not stay: somebody who waits long enough gets past it.
AbandonedLockGoes ==
  []<>(~Abandoned(Record.by) \/ \A p \in Processes : pc[p] \notin Waiting)
================================================================================
