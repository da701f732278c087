------------------------- MODULE DirectoryLockProofs -------------------------
(***************************************************************************)
(* However many processes share a store, die and recover each other's      *)
(* locks, and whatever the ages and the timeouts, none of the three copies *)
(* of the lock breaks a live holder until a rename takes another directory *)
(* than the one its process judged abandoned.                              *)
(***************************************************************************)
EXTENDS DirectoryLock, TLAPS

\* What is in place belongs to the process that made it, which is at work in
\* it or dead; what was judged is old; and who is about to rename what it
\* judged has seen that its maker is dead, or too late with its owner.json.
Sound ==
  /\ \A p \in Processes :
       /\ pc[p] = "own" => /\ lock # NoLock /\ lock.creator = p
                           /\ lock.owner = NoOwner /\ ~lock.old
       /\ pc[p] = "inside" => /\ lock # NoLock /\ lock.creator = p
                              /\ lock.owner = p
  /\ lock # NoLock => /\ pc[lock.creator] \in {"own", "inside", "dead"}
                      /\ lock.owner = NoOwner => pc[lock.creator] # "inside"
                      /\ lock.owner # NoOwner => lock.owner = lock.creator
  /\ judged # {} => lock # NoLock /\ lock.old
  /\ \A p \in judged : pc[p] = "rename" => Dead(lock.creator)

IInv == TypeOK /\ (strayed \/ Sound)

LEMMA InitIInv == Init => IInv
<1> SUFFICES ASSUME Init PROVE IInv
  OBVIOUS
<1>1. strayed \in BOOLEAN
  BY DEF Init
<1> QED
  BY <1>1 DEF Init, IInv, TypeOK, Sound

LEMMA NewLocks ==
  ASSUME TypeOK
  PROVE  /\ \A p \in Processes :
              /\ [creator |-> p, owner |-> NoOwner, old |-> FALSE] \in Locks
              /\ lock # NoLock => [lock EXCEPT !.owner = p] \in Locks
         /\ lock # NoLock => [lock EXCEPT !.old = TRUE] \in Locks
  BY DEF TypeOK, Locks

LEMMA TypeStep == TypeOK /\ [Next]_vars => TypeOK'
<1> SUFFICES ASSUME TypeOK, [Next]_vars PROVE TypeOK'
  OBVIOUS
<1>2. ASSUME NEW p \in Processes, Start(p) \/ Crash(p) \/ DeadlinePasses(p) PROVE TypeOK'
  BY <1>2 DEF TypeOK, Start, Crash, DeadlinePasses, Goto, history
<1>3. ASSUME NEW p \in Processes, MakeDirectory(p) PROVE TypeOK'
  BY NewLocks, <1>3 DEF TypeOK, MakeDirectory, Goto, history
<1>4. ASSUME NEW p \in Processes, WriteOwner(p) PROVE TypeOK'
  BY NewLocks, <1>4 DEF TypeOK, WriteOwner, RemoveLock, Goto
<1>5. ASSUME NEW p \in Processes, Unlock(p) PROVE TypeOK'
  BY <1>5 DEF TypeOK, Unlock, RemoveLock, Goto
<1>6. ASSUME NEW p \in Processes, StatLock(p) \/ ReadOwner(p) PROVE TypeOK'
  BY <1>6 DEF TypeOK, StatLock, ReadOwner, Goto
<1>7. ASSUME NEW p \in Processes, RenameLock(p) PROVE TypeOK'
  <2>1. strayed' \in BOOLEAN
    BY <1>7 DEF TypeOK, RenameLock, Strays
  <2> QED
    BY <1>7, <2>1 DEF TypeOK, RenameLock, RemoveLock, Goto
<1>8. ASSUME NEW p \in Processes, Wait(p) PROVE TypeOK'
  BY <1>8 DEF TypeOK, Wait, Goto, history
<1>9. CASE LockAges
  <2>1. lock' \in Locks
    BY NewLocks, <1>9 DEF LockAges
  <2> QED
    BY <1>9, <2>1 DEF TypeOK, LockAges, history
<1>10. CASE UNCHANGED vars
  BY <1>10 DEF TypeOK, vars, history
<1> QED
  BY <1>2, <1>3, <1>4, <1>5, <1>6, <1>7, <1>8, <1>9, <1>10 DEF Next, Acquire

-----------------------------------------------------------------------------
(* One lemma per kind of step.                                             *)

LEMMA LockTyped ==
  ASSUME TypeOK, lock # NoLock
  PROVE  /\ lock \in Locks /\ lock.creator \in Processes /\ NoOwner \notin Processes
         /\ lock.owner \in Processes \cup {NoOwner} /\ lock.old \in BOOLEAN
  BY NoOwnerAssumption DEF TypeOK, Locks

\* A process that holds nothing stays so, dies or goes to wait.
LEMMA OutsideSound ==
  ASSUME TypeOK, Sound, NEW p \in Processes,
         NEW to \in {"idle", "mkdir", "stat", "owner", "wait", "dead"},
         pc[p] \notin {"own", "inside", "dead"} \/ to = "dead",
         pc' = [pc EXCEPT ![p] = to], UNCHANGED lock,
         judged' \subseteq judged
  PROVE  Sound'
<1>1. \A q \in Processes : /\ pc'[q] = IF q = p THEN to ELSE pc[q]
                           /\ pc[q] = "dead" => pc'[q] = "dead"
                           /\ pc[q] \in {"own", "inside"} => pc'[q] \in {pc[q], "dead"}
  BY DEF TypeOK
<1>2. judged \subseteq Processes
  BY DEF TypeOK
<1>3. lock # NoLock => /\ pc'[lock.creator] \in {"own", "inside", "dead"}
                       /\ lock.owner = NoOwner => pc'[lock.creator] # "inside"
  <2> SUFFICES ASSUME lock # NoLock
               PROVE  /\ pc'[lock.creator] \in {"own", "inside", "dead"}
                      /\ lock.owner = NoOwner => pc'[lock.creator] # "inside"
    OBVIOUS
  <2>1. /\ lock.creator \in Processes /\ pc[lock.creator] \in {"own", "inside", "dead"}
        /\ lock.owner = NoOwner => pc[lock.creator] # "inside"
    BY LockTyped DEF Sound
  <2> QED
    BY <1>1, <2>1
<1>4. \A q \in judged' : pc'[q] = "rename" => Dead(lock.creator)'
  <2> SUFFICES ASSUME NEW q \in judged', pc'[q] = "rename" PROVE Dead(lock.creator)'
    OBVIOUS
  <2>1. q \in Processes /\ pc[q] = "rename" /\ lock # NoLock
    BY <1>1, <1>2 DEF Sound
  <2>2. pc[lock.creator] = "dead" /\ lock.creator \in Processes
    BY <2>1, LockTyped DEF Sound, Dead
  <2> QED
    BY <1>1, <2>2 DEF Dead
<1>5. \A q \in Processes : pc'[q] \in {"own", "inside"} => pc[q] = pc'[q]
  BY <1>1
<1> QED
  BY <1>3, <1>4, <1>5 DEF Sound

\* With nothing in place nobody holds anything and nothing is judged.
LEMMA EmptySound ==
  ASSUME lock' = NoLock, judged' = {},
         \A q \in Processes : pc'[q] \notin {"own", "inside"}
  PROVE  Sound'
  BY DEF Sound

LEMMA MakeSound ==
  ASSUME TypeOK, Sound, NEW p \in Processes, MakeDirectory(p)
  PROVE  Sound'
<1>1. CASE lock # NoLock
  <2>1. pc[p] = "mkdir" /\ pc' = [pc EXCEPT ![p] = "stat"] /\ UNCHANGED <<lock, judged>>
    BY <1>1 DEF MakeDirectory, Goto, history
  <2> QED
    BY <2>1, OutsideSound
<1>2. CASE lock = NoLock
  <2>1. /\ lock' = [creator |-> p, owner |-> NoOwner, old |-> FALSE]
        /\ pc[p] = "mkdir" /\ pc' = [pc EXCEPT ![p] = "own"]
        /\ judged' = {}
    BY <1>2 DEF MakeDirectory, Goto, history, Sound
  <2>2. lock' # NoLock /\ lock'.creator = p /\ lock'.owner = NoOwner /\ ~lock'.old
    BY <2>1, NewLocks, NoLockAssumption
  <2>3. \A q \in Processes : pc[q] \notin {"own", "inside"}
    BY <1>2 DEF Sound
  <2>4. \A q \in Processes : pc'[q] = IF q = p THEN "own" ELSE pc[q]
    BY <2>1 DEF TypeOK
  <2> QED
    BY <2>1, <2>2, <2>3, <2>4 DEF Sound
<1> QED
  BY <1>1, <1>2

LEMMA WriteSound ==
  ASSUME TypeOK, Sound, NEW p \in Processes, WriteOwner(p)
  PROVE  Sound'
<1>1. /\ pc[p] = "own" /\ lock # NoLock /\ lock.creator = p
      /\ lock.owner = NoOwner /\ ~lock.old /\ judged = {}
  BY DEF WriteOwner, Goto, Sound
<1>2. /\ lock' = [lock EXCEPT !.owner = p] /\ pc' = [pc EXCEPT ![p] = "inside"]
      /\ judged' = {}
  BY <1>1 DEF WriteOwner, Goto, Unowned, Owner
<1>3. lock' # NoLock /\ lock'.creator = p /\ lock'.owner = p
  BY <1>1, <1>2, NewLocks, LockTyped, NoLockAssumption DEF Locks
<1>4. \A q \in Processes : pc[q] \in {"own", "inside"} => q = p
  BY <1>1 DEF Sound
<1>5. \A q \in Processes : pc'[q] = IF q = p THEN "inside" ELSE pc[q]
  BY <1>2 DEF TypeOK
<1>6. p # NoOwner
  BY NoOwnerAssumption
<1> QED
  BY <1>2, <1>3, <1>4, <1>5, <1>6 DEF Sound

LEMMA UnlockSound ==
  ASSUME TypeOK, Sound, NEW p \in Processes, Unlock(p)
  PROVE  Sound'
<1>1. pc[p] = "inside" /\ lock.creator = p /\ pc' = [pc EXCEPT ![p] = "idle"]
  BY DEF Unlock, Goto, Sound
<1>2. \A q \in Processes : pc[q] \in {"own", "inside"} => q = p
  BY <1>1 DEF Sound
<1>3. \A q \in Processes : pc'[q] \notin {"own", "inside"}
  BY <1>1, <1>2 DEF TypeOK
<1> QED
  BY <1>3, EmptySound DEF Unlock, RemoveLock

\* A directory that is not there may be renamed without harm; one that is there
\* is only judged when it is old.
LEMMA StatSound ==
  ASSUME TypeOK, Sound, NEW p \in Processes, StatLock(p)
  PROVE  Sound'
<1>1. pc[p] = "stat" /\ UNCHANGED lock
  BY DEF StatLock, Goto
<1>2. CASE lock = NoLock
  <2>1. PICK to \in {"rename", "wait"} : pc' = [pc EXCEPT ![p] = to]
    BY <1>2 DEF StatLock, Goto
  <2>2. judged' = {}
    <3>1. pc'[p] # "owner"
      BY <2>1 DEF TypeOK
    <3> QED
      BY <1>2, <3>1 DEF StatLock, Sound
  <2>3. \A q \in Processes : pc'[q] \notin {"own", "inside"}
    BY <1>2, <2>1 DEF Sound, TypeOK
  <2> QED
    BY <1>1, <1>2, <2>2, <2>3, EmptySound
<1>3. CASE lock # NoLock
  <2>1. PICK to \in {"wait", "owner"} : /\ pc' = [pc EXCEPT ![p] = to]
                                        /\ to = "owner" => lock.old
    BY <1>3 DEF StatLock, Goto
  <2>2. judged' # {} => lock.old
    BY <1>3, <2>1 DEF StatLock, Sound, TypeOK
  <2>3. \A q \in Processes : pc'[q] = IF q = p THEN to ELSE pc[q]
    BY <2>1 DEF TypeOK
  <2>4. \A q \in judged' : pc'[q] = "rename" => q \in judged /\ pc[q] = "rename"
    BY <1>1, <2>1, <2>3 DEF StatLock, TypeOK
  <2> QED
    BY <1>1, <1>3, <2>2, <2>3, <2>4, LockTyped DEF Sound, Dead
<1> QED
  BY <1>2, <1>3

\* What is old and names nobody was left by a process that died before it wrote
\* its name; what names a dead process is that process's.
LEMMA ReadSound ==
  ASSUME TypeOK, Sound, NEW p \in Processes, ReadOwner(p)
  PROVE  Sound'
<1>1. pc[p] = "owner" /\ UNCHANGED lock /\ judged' \subseteq judged
  BY DEF ReadOwner, Goto
<1>2. CASE pc' = [pc EXCEPT ![p] = "wait"]
  BY <1>1, <1>2, OutsideSound
<1>3. CASE pc' = [pc EXCEPT ![p] = "rename"]
  <2>1. \A q \in Processes : pc'[q] = IF q = p THEN "rename" ELSE pc[q]
    BY <1>3 DEF TypeOK
  <2>2. Unowned \/ Dead(Owner)
    <3>1. pc'[p] # "wait"
      BY <2>1
    <3> QED
      BY <1>1, <3>1 DEF ReadOwner, Goto, TypeOK
  <2>3. ASSUME p \in judged PROVE Dead(lock.creator)
    <3>1. lock # NoLock /\ lock.old
      BY <2>3 DEF Sound
    <3>2. lock.creator \in Processes
      BY <3>1, LockTyped
    <3>3. pc[lock.creator] # "own"
      BY <3>1, <3>2 DEF Sound
    <3> QED
      BY <2>2, <3>1, <3>2, <3>3, LockTyped DEF Sound, Unowned, Owner, Dead
  <2>4. \A q \in judged' : pc'[q] = "rename" => pc[lock.creator] = "dead"
    BY <1>1, <2>1, <2>3 DEF Sound, Dead, TypeOK
  <2>5. lock # NoLock => lock.creator # p \/ pc[lock.creator] = "owner"
    BY <1>1
  <2>6. judged' # {} => lock # NoLock /\ lock.old
    BY <1>1 DEF Sound
  <2>7. \A q \in judged' : pc'[q] = "rename" => pc'[lock.creator] = "dead"
    BY <1>1, <2>1, <2>4, <2>6, LockTyped DEF Sound
  <2> QED
    BY <1>1, <2>1, <2>6, <2>7, LockTyped DEF Sound, Dead
<1> QED
  BY <1>2, <1>3 DEF ReadOwner, Goto

LEMMA RenameSound ==
  ASSUME TypeOK, Sound, NEW p \in Processes, RenameLock(p), ~strayed'
  PROVE  Sound'
<1>1. /\ pc[p] = "rename" /\ pc' = [pc EXCEPT ![p] = "mkdir"]
      /\ lock' = NoLock /\ judged' = {} /\ ~Strays(p)
  BY DEF RenameLock, RemoveLock, Goto
<1>2. lock = NoLock \/ Dead(lock.creator)
  BY <1>1 DEF Strays, Sound
<1>3. \A q \in Processes : pc[q] \notin {"own", "inside"}
  BY <1>2 DEF Sound, Dead
<1>4. \A q \in Processes : pc'[q] \notin {"own", "inside"}
  BY <1>1, <1>3 DEF TypeOK
<1> QED
  BY <1>1, <1>4, EmptySound

LEMMA AgeSound == ASSUME TypeOK, Sound, LockAges PROVE Sound'
<1>1. /\ lock # NoLock /\ UNCHANGED <<pc, judged>>
      /\ lock' = [lock EXCEPT !.old = TRUE]
      /\ ~(lock.owner = NoOwner /\ pc[lock.creator] = "own")
  BY DEF LockAges, history
<1>2. /\ lock' # NoLock /\ lock'.creator = lock.creator
      /\ lock'.owner = lock.owner /\ lock'.old
  BY <1>1, NewLocks, LockTyped, NoLockAssumption DEF Locks
<1>3. \A q \in Processes : pc[q] # "own"
  BY <1>1 DEF Sound
<1> QED
  BY <1>1, <1>2, <1>3 DEF Sound, Dead

LEMMA SoundStep == IInv /\ [Next]_vars => IInv'
<1> SUFFICES ASSUME IInv, [Next]_vars, ~strayed' PROVE Sound'
  BY TypeStep DEF IInv
<1>1. ~strayed
  BY DEF Next, Acquire, Start, MakeDirectory, WriteOwner, Unlock, StatLock, ReadOwner,
         RenameLock, Wait, Crash, LockAges, DeadlinePasses, vars, history
<1>2. TypeOK /\ Sound
  BY <1>1 DEF IInv
<1>3. ASSUME NEW p \in Processes, Start(p) \/ Wait(p) PROVE Sound'
  <2>1. PICK to \in {"idle", "mkdir"} : pc' = [pc EXCEPT ![p] = to]
    BY <1>3 DEF Start, Wait, Goto
  <2>2. pc[p] \notin {"own", "inside", "dead"} /\ UNCHANGED <<lock, judged>>
    BY <1>3 DEF Start, Wait, Goto, history
  <2> QED
    BY <1>2, <2>1, <2>2, OutsideSound
<1>4. ASSUME NEW p \in Processes, Crash(p) PROVE Sound'
  <2>1. pc' = [pc EXCEPT ![p] = "dead"] /\ UNCHANGED <<lock, judged>>
    BY <1>4 DEF Crash, history
  <2> QED
    BY <1>2, <2>1, OutsideSound
<1>5. ASSUME NEW p \in Processes, DeadlinePasses(p) PROVE Sound'
  BY <1>2, <1>5 DEF DeadlinePasses, history, Sound, Dead
<1>6. CASE UNCHANGED vars
  BY <1>2, <1>6 DEF vars, history, Sound, Dead
<1>7. ASSUME NEW p \in Processes, Acquire(p) PROVE Sound'
  BY <1>2, <1>3, <1>7, MakeSound, WriteSound, StatSound, ReadSound, RenameSound DEF Acquire
<1> QED
  BY <1>2, <1>3, <1>4, <1>5, <1>6, <1>7, UnlockSound, AgeSound DEF Next

\* Every variable of the lock protocol keeps its type, deaths or not.
THEOREM TypeCorrect == Spec => []TypeOK
<1>1. Init => TypeOK
  BY InitIInv DEF IInv
<1> QED
  BY <1>1, TypeStep, PTL DEF Spec

\* "A lock owned by a live local process is never stolen", by none of the three
\* copies, unless a rename strays: whatever died, waited or was recovered.
THEOREM LiveHoldersAreKept == Spec => []StolenOnlyByStraying
<1>1. IInv => StolenOnlyByStraying
  BY DEF IInv, Sound, StolenOnlyByStraying, LiveHolderNeverBroken, Owner
<1> QED
  BY InitIInv, SoundStep, <1>1, PTL DEF Spec
=============================================================================
