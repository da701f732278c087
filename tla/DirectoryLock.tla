---------------------------- MODULE DirectoryLock ----------------------------
(***************************************************************************)
(* The directory lock that serialises the multi-agent operator's durable   *)
(* stores.  A process takes it with mkdir, writes owner.json into it, and  *)
(* gives it up by removing whatever directory has that name.  A waiter     *)
(* that believes the lock abandoned renames the directory away.            *)
(*                                                                         *)
(* Three stores carry their own copy of the protocol: the lane-lease       *)
(* store, the reservation ledger and the evidence ledger.  The copies      *)
(* differ in what they take for abandoned and in what they do when         *)
(* owner.json cannot be written; the variable store says which copy runs.  *)
(***************************************************************************)
EXTENDS Naturals, FiniteSets

CONSTANTS
  Processes,   \* operating-system processes of one host
  Stores,      \* which of "lane-lease", "reservation" and "evidence" may run
  MaxCrashes,  \* bound of the processes that die
  NoLock,      \* no directory has the lock's name
  NoOwner      \* the directory holds no owner.json

ASSUME StoreAssumption ==
  /\ Stores \subseteq {"lane-lease", "reservation", "evidence"}
  /\ MaxCrashes \in Nat

ASSUME NoOwnerAssumption == NoOwner \notin Processes

Locks == [creator : Processes, owner : Processes \cup {NoOwner}, old : BOOLEAN]

ASSUME NoLockAssumption == NoLock \notin Locks

VARIABLES
  store,    \* the copy of the protocol; chosen once
  lock,     \* the directory, or NoLock; old once staleLockMs has passed
  pc,       \* where each process is in acquireLock
  expired,  \* whether its lockTimeoutMs has passed
  judged,   \* history: who found old the very directory that is in place
  strayed   \* history: a rename took another directory than the one judged

history == <<judged, strayed>>
vars == <<store, lock, pc, expired, history>>

\* lane-lease: a lock that vanished before stat() counts as stale.
MissingIsStale == store = "lane-lease"

\* evidence: an owner.json that cannot be read is never proof of death.
MalformedIsStale == store # "evidence"

\* lane-lease: the directory stays behind when owner.json cannot be written.
RemovesUnowned == store # "lane-lease"

\* What reading owner.json yields.
Owner == IF lock = NoLock THEN NoOwner ELSE lock.owner
Unowned == Owner = NoOwner

Dead(p) == pc[p] = "dead"
Alive(p) == ~Dead(p)

Goto(p, from, to) == pc[p] = from /\ pc' = [pc EXCEPT ![p] = to]

Init ==
  /\ store \in Stores
  /\ lock = NoLock
  /\ pc = [p \in Processes |-> "idle"]
  /\ expired = [p \in Processes |-> FALSE]
  /\ judged = {}
  /\ strayed = FALSE

Start(p) ==
  /\ Goto(p, "idle", "mkdir")
  /\ expired' = [expired EXCEPT ![p] = FALSE]
  /\ UNCHANGED <<store, lock, history>>

\* What was judged is gone for everybody who judged it.
RemoveLock == lock' = NoLock /\ judged' = {}

\* The definitions named Faulty... are mutants: each replaces the definition
\* after it to show that some property would notice the fault.
MakeDirectory(p) ==
  /\ \/ /\ lock = NoLock
        /\ lock' = [creator |-> p, owner |-> NoOwner, old |-> FALSE]
        /\ Goto(p, "mkdir", "own")
     \/ /\ lock # NoLock
        /\ UNCHANGED lock
        /\ Goto(p, "mkdir", "stat")
  /\ UNCHANGED <<store, expired, history>>

\* owner.json is written by path, into whatever directory has the name now.
\* When it is already there the lane-lease copy takes that for contention.
WriteOwner(p) ==
  /\ \/ lock = NoLock /\ Goto(p, "own", "idle") /\ UNCHANGED <<lock, judged>>
     \/ /\ lock # NoLock /\ Unowned
        /\ lock' = [lock EXCEPT !.owner = p]
        /\ Goto(p, "own", "inside") /\ UNCHANGED judged
     \/ ~Unowned /\ RemovesUnowned /\ Goto(p, "own", "idle") /\ RemoveLock
     \/ /\ ~Unowned /\ ~RemovesUnowned
        /\ Goto(p, "own", "stat") /\ UNCHANGED <<lock, judged>>
  /\ UNCHANGED <<store, expired, strayed>>

Unlock(p) ==
  /\ Goto(p, "inside", "idle")
  /\ RemoveLock
  /\ UNCHANGED <<store, expired, strayed>>

\* staleLock(), first call: the age of the directory.
StatLock(p) ==
  /\ \/ lock = NoLock /\ MissingIsStale /\ Goto(p, "stat", "rename")
     \/ lock = NoLock /\ ~MissingIsStale /\ Goto(p, "stat", "wait")
     \/ lock # NoLock /\ ~lock.old /\ Goto(p, "stat", "wait")
     \/ lock # NoLock /\ lock.old /\ Goto(p, "stat", "owner")
  /\ judged' = IF pc'[p] = "owner" THEN judged \cup {p} ELSE judged
  /\ UNCHANGED <<store, lock, expired, strayed>>

\* staleLock(), second call: the owner, read from whatever directory has the
\* name by now, and whether its process is alive.
FaultyReadOwner(p) ==
  /\ Goto(p, "owner", "rename")
  /\ UNCHANGED <<store, lock, expired, history>>

ReadOwner(p) ==
  /\ \/ Unowned /\ MalformedIsStale /\ Goto(p, "owner", "rename")
     \/ Unowned /\ ~MalformedIsStale /\ Goto(p, "owner", "wait")
     \/ ~Unowned /\ Dead(Owner) /\ Goto(p, "owner", "rename")
     \/ ~Unowned /\ Alive(Owner) /\ Goto(p, "owner", "wait")
  /\ judged' = IF pc'[p] = "rename" THEN judged ELSE judged \ {p}
  /\ UNCHANGED <<store, lock, expired, strayed>>

\* The rename takes the directory that has the name, not the one inspected;
\* when there is none the loop goes on.
FaultyRenameLock(p) ==
  /\ Goto(p, "rename", "mkdir")
  /\ UNCHANGED <<store, lock, expired, history>>

Strays(p) == lock # NoLock /\ p \notin judged

RenameLock(p) ==
  /\ Goto(p, "rename", "mkdir")
  /\ RemoveLock
  /\ strayed' = (strayed \/ Strays(p))
  /\ UNCHANGED <<store, expired>>

FaultyWait(p) ==
  /\ Goto(p, "wait", "mkdir")
  /\ UNCHANGED <<store, lock, expired, history>>

\* Past the deadline the caller gets a wall, before it another attempt.
Wait(p) ==
  /\ \/ expired[p] /\ Goto(p, "wait", "idle")
     \/ ~expired[p] /\ Goto(p, "wait", "mkdir")
  /\ UNCHANGED <<store, lock, expired, history>>

Crash(p) ==
  /\ Alive(p) /\ pc[p] # "idle"
  /\ Cardinality({q \in Processes : Dead(q)}) < MaxCrashes
  /\ pc' = [pc EXCEPT ![p] = "dead"]
  /\ UNCHANGED <<store, lock, expired, history>>

\* Time passes.  A live process is taken to write owner.json within
\* staleLockMs of its mkdir; inside the lock it may stay as long as it likes.
LockAges ==
  /\ lock # NoLock /\ ~lock.old
  /\ ~(lock.owner = NoOwner /\ pc[lock.creator] = "own")
  /\ lock' = [lock EXCEPT !.old = TRUE]
  /\ UNCHANGED <<store, pc, expired, history>>

DeadlinePasses(p) ==
  /\ ~expired[p] /\ pc[p] \notin {"idle", "dead"}
  /\ expired' = [expired EXCEPT ![p] = TRUE]
  /\ UNCHANGED <<store, lock, pc, history>>

Acquire(p) ==
  \/ MakeDirectory(p) \/ WriteOwner(p) \/ StatLock(p) \/ ReadOwner(p)
  \/ RenameLock(p) \/ Wait(p)

Next ==
  \/ \E p \in Processes :
       Start(p) \/ Acquire(p) \/ Unlock(p) \/ Crash(p) \/ DeadlinePasses(p)
  \/ LockAges

Spec == Init /\ [][Next]_vars

\* A live process runs on, time passes, and requests keep coming.
Fairness ==
  /\ \A p \in Processes : /\ WF_vars(Start(p))
                          /\ WF_vars(Acquire(p))
                          /\ WF_vars(Unlock(p))
                          /\ WF_vars(DeadlinePasses(p))
  /\ WF_vars(LockAges)

FairSpec == Spec /\ Fairness

-----------------------------------------------------------------------------
TypeOK ==
  /\ store \in Stores
  /\ lock \in Locks \cup {NoLock}
  /\ pc \in [Processes -> {"idle", "mkdir", "own", "inside", "stat", "owner",
                           "rename", "wait", "dead"}]
  /\ expired \in [Processes -> BOOLEAN]
  /\ judged \subseteq Processes
  /\ strayed \in BOOLEAN

\* "A lock owned by a live local process is never stolen": while a process is
\* inside, the directory in place is the one that names it, so no two processes
\* rewrite the same store at the same time.
LiveHolderNeverBroken ==
  \A p \in Processes : pc[p] = "inside" => Owner = p

\* All three copies keep that promise over deaths and recoveries until a rename
\* takes another directory than the one whose age and owner its process looked
\* at.  Two waiters that found the same owner dead get there: the second renames
\* the directory of the first.
StolenOnlyByStraying == strayed \/ LiveHolderNeverBroken

\* A lock left behind by a process that died inside does not block the store
\* for ever: the directory that names a dead owner goes away.
DeadOwnerIsReplaced ==
  (~Unowned /\ Dead(Owner)) ~> (Unowned \/ Alive(Owner))

\* The copies that take a directory without owner.json for abandoned recover
\* from a death at any point; the evidence ledger's does not try to.
AbandonedLockGoes ==
  (MalformedIsStale /\ lock # NoLock /\ Dead(lock.creator))
    ~> (lock = NoLock \/ Alive(lock.creator))

\* "A bounded timeout fails closed", as far as it goes: an attempt ends, inside
\* or with a wall, or it takes lock after lock for abandoned.  A rename sends
\* the waiter back to the mkdir before it looks at its deadline.
AttemptsEndOrRename ==
  \A p \in Processes :
    \/ []<>(pc[p] = "rename")
    \/ pc[p] = "mkdir" ~> pc[p] \in {"inside", "idle", "dead"}
=============================================================================
