------------------------ MODULE HermesStoreLockProofs ------------------------
(***************************************************************************)
(* While every operation ends within STALE_LOCK_MS, withLock() is exclusive*)
(* and the state file is a serial store, for any number of processes and   *)
(* requests and however many processes die, until an unlink takes a lock   *)
(* file other than the one its process found stale.                        *)
(***************************************************************************)
EXTENDS HermesStoreLock, TLAPS

\* Exclusion is not inductive.  That only the locks of the dead are found stale
\* needs a lock's age to be the time its owner has been inside; that what was
\* found stale may be removed, that judged speaks of the file in place.
Sound ==
  /\ \A p \in Processes :
       /\ pc[p] \in Section => /\ lock # NoLock /\ lock.owner = p
                               /\ lock.age = heldFor[p]
                               /\ heldFor[p] <= StaleAfter
       /\ pc[p] \in {"write", "unlock"} => seen[p] = file
  /\ lock # NoLock => pc[lock.owner] \in Section \cup {"dead"}
  /\ judged # {} => lock # NoLock /\ pc[lock.owner] = "dead"
  /\ \A a \in answered : a[2] <= Len(file) /\ file[a[2]] = a[1]

Typed == /\ TypeOK
         /\ \A p \in Processes : pc[p] # "idle" => request[p] \in Keys

LockInv == Typed /\ (strayed \/ Sound)

LEMMA InitInv == Init => LockInv
<1> SUFFICES ASSUME Init PROVE LockInv
  OBVIOUS
<1>1. strayed \in BOOLEAN
  BY DEF Init
<1>2. TypeOK
  BY <1>1, LockAssumption DEF Init, TypeOK
<1> QED
  BY <1>2 DEF Init, LockInv, Typed, Sound, Section

-----------------------------------------------------------------------------
(* Types.                                                                  *)

LEMMA NewLock ==
  ASSUME NEW p \in Processes, lock' = [owner |-> p, age |-> 0]
  PROVE  lock' \in Locks /\ lock' # NoLock /\ lock'.owner = p /\ lock'.age = 0
<1>1. lock' \in Locks
  BY LockAssumption DEF Locks
<1> QED
  BY <1>1, NoLockAssumption

LEMMA Aging ==
  ASSUME TypeOK, Tick
  PROVE  /\ \A n \in 0..StaleAfter + 1 : /\ Older(n) \in 0..StaleAfter + 1
                                         /\ n < StaleAfter => Older(n) <= StaleAfter
         /\ lock = NoLock => lock' = NoLock
         /\ lock # NoLock => /\ lock' \in Locks /\ lock' # NoLock
                             /\ lock'.owner = lock.owner /\ lock'.age = Older(lock.age)
<1>1. \A n \in 0..StaleAfter + 1 : /\ Older(n) \in 0..StaleAfter + 1
                                   /\ n < StaleAfter => Older(n) <= StaleAfter
  BY LockAssumption DEF Older
<1>2. ASSUME lock # NoLock
      PROVE  /\ lock' \in Locks /\ lock' # NoLock
             /\ lock'.owner = lock.owner /\ lock'.age = Older(lock.age)
  <2>1. lock \in Locks /\ lock' = [lock EXCEPT !.age = Older(lock.age)]
    BY <1>2 DEF TypeOK, Tick
  <2>2. lock' \in Locks
    BY <2>1, <1>1 DEF Locks
  <2> QED
    BY <2>1, <2>2, NoLockAssumption DEF Locks
<1> QED
  BY <1>1, <1>2 DEF Tick

\* The caller is told a revision at which its key is.
LEMMA AnswersTyped ==
  ASSUME Typed, NEW p \in Processes, pc[p] = "unlock", NEW a \in Answers(p)
  PROVE  /\ a \in Keys \X (Nat \ {0})
         /\ a[2] <= Len(seen[p]) /\ seen[p][a[2]] = a[1]
<1> DEFINE i == CHOOSE i \in DOMAIN seen[p] : seen[p][i] = request[p]
<1>1. request[p] \in Keys /\ seen[p] \in Seq(Keys)
  BY DEF Typed, TypeOK
<1>2. request[p] \in ToSet(seen[p]) /\ a = <<request[p], i>>
  BY DEF Answers
<1>3. i \in DOMAIN seen[p] /\ seen[p][i] = request[p]
  BY <1>2 DEF ToSet
<1>4. \A s \in Seq(Keys) : \A j \in DOMAIN s : j \in Nat \ {0} /\ j <= Len(s)
  OBVIOUS
<1>5. i \in Nat \ {0} /\ i <= Len(seen[p])
  BY <1>1, <1>3, <1>4
<1> HIDE DEF i
<1> QED
  BY <1>1, <1>2, <1>3, <1>5

LEMMA TypedStep == Typed /\ [Next]_vars => Typed'
<1> SUFFICES ASSUME Typed, [Next]_vars PROVE Typed'
  OBVIOUS
<1> USE DEF Typed
<1>1. ASSUME NEW p \in Processes, NEW k \in Keys, Start(p, k) PROVE Typed'
  BY <1>1 DEF TypeOK, Start, Goto, history, Section
<1>2. ASSUME NEW p \in Processes, OpenLock(p) PROVE Typed'
  <2>1. lock' \in Locks \cup {NoLock} /\ heldFor' \in [Processes -> 0..StaleAfter + 1]
    <3>1. CASE TakeLock(p)
      BY <3>1, NewLock, LockAssumption DEF TypeOK, TakeLock
    <3>2. CASE UNCHANGED <<lock, heldFor>>
      BY <3>2 DEF TypeOK
    <3> QED
      BY <1>2, <3>1, <3>2 DEF OpenLock
  <2> QED
    BY <1>2, <2>1 DEF TypeOK, OpenLock, Goto, history, Section
<1>3. ASSUME NEW p \in Processes, StatLock(p) PROVE Typed'
  BY <1>3 DEF TypeOK, StatLock, Goto, Section
<1>4. ASSUME NEW p \in Processes, UnlinkStale(p) PROVE Typed'
  <2>1. strayed' \in BOOLEAN
    BY <1>4 DEF TypeOK, UnlinkStale, Strays
  <2> QED
    BY <1>4, <2>1 DEF TypeOK, UnlinkStale, RemoveLock, Goto, Section
<1>5. ASSUME NEW p \in Processes, ReopenLock(p) PROVE Typed'
  <2>1. lock' \in Locks \cup {NoLock} /\ heldFor' \in [Processes -> 0..StaleAfter + 1]
    <3>1. CASE TakeLock(p)
      BY <3>1, NewLock, LockAssumption DEF TypeOK, TakeLock
    <3>2. CASE UNCHANGED <<lock, heldFor>>
      BY <3>2 DEF TypeOK
    <3> QED
      BY <1>5, <3>1, <3>2 DEF ReopenLock
  <2> QED
    BY <1>5, <2>1 DEF TypeOK, ReopenLock, Goto, history, Section
<1>6. ASSUME NEW p \in Processes, ReadState(p) PROVE Typed'
  BY <1>6 DEF TypeOK, ReadState, Goto, history, Section
<1>7. ASSUME NEW p \in Processes, WriteState(p) PROVE Typed'
  <2>1. request[p] \in Keys /\ seen[p] \in Seq(Keys) /\ file \in Seq(Keys)
    BY <1>7 DEF TypeOK, WriteState, Goto
  <2>2. file' \in Seq(Keys) /\ seen' \in [Processes -> Seq(Keys)]
    <3>1. CASE UNCHANGED <<file, seen>>
      BY <3>1 DEF TypeOK
    <3>2. CASE file' = Append(seen[p], request[p]) /\ seen' = [seen EXCEPT ![p] = file']
      <4>1. file' \in Seq(Keys)
        BY <3>2, <2>1
      <4> QED
        BY <3>2, <4>1 DEF TypeOK
    <3> QED
      BY <1>7, <3>1, <3>2 DEF WriteState
  <2> QED
    BY <1>7, <2>2 DEF TypeOK, WriteState, Goto, history, Section
<1>8. ASSUME NEW p \in Processes, RejectRequest(p) PROVE Typed'
  BY <1>8 DEF TypeOK, RejectRequest, Goto, history, Section
<1>9. ASSUME NEW p \in Processes, Unlock(p) PROVE Typed'
  <2>1. answered' \subseteq Keys \X (Nat \ {0})
    BY <1>9, AnswersTyped DEF TypeOK, Unlock, Goto
  <2>2. seen' \in [Processes -> Seq(Keys)]
    BY <1>9 DEF TypeOK, Unlock
  <2> QED
    BY <1>9, <2>1, <2>2 DEF TypeOK, Unlock, RemoveLock, Goto, Section
<1>10. ASSUME NEW p \in Processes, Crash(p) PROVE Typed'
  BY <1>10 DEF TypeOK, Crash, history, Section
<1>11. CASE Tick
  <2>1. heldFor' \in [Processes -> 0..StaleAfter + 1]
    BY <1>11, Aging DEF TypeOK, Tick
  <2>2. lock' \in Locks \cup {NoLock}
    BY <1>11, Aging
  <2> QED
    BY <1>11, <2>1, <2>2 DEF TypeOK, Tick, history
<1>12. CASE UNCHANGED vars
  BY <1>12 DEF TypeOK, vars, history
<1> QED
  BY <1>1, <1>2, <1>3, <1>4, <1>5, <1>6, <1>7, <1>8, <1>9, <1>10, <1>11, <1>12
  DEF Next, Step

-----------------------------------------------------------------------------
(* One lemma per kind of step.  Who is inside is alone there.              *)

LEMMA Alone ==
  ASSUME Sound, NEW p \in Processes, NEW q \in Processes,
         pc[p] \in Section, pc[q] \in Section
  PROVE  p = q
  BY DEF Sound

\* With no lock file, or that of a dead process, nobody is inside.
LEMMA Empty ==
  ASSUME Sound, lock = NoLock \/ pc[lock.owner] = "dead"
  PROVE  \A q \in Processes : pc[q] \notin Section
  BY DEF Sound, Section

LEMMA TakeSound ==
  ASSUME Typed, Sound, NEW p \in Processes, TakeLock(p),
         pc' = [pc EXCEPT ![p] = "read"],
         UNCHANGED <<file, seen, answered, judged>>
  PROVE  Sound'
<1>1. lock = NoLock /\ lock' # NoLock /\ lock'.owner = p /\ lock'.age = 0
  BY NewLock DEF TakeLock
<1>2. \A q \in Processes : pc[q] \notin Section
  BY <1>1, Empty
<1>3. \A q \in Processes : /\ pc'[q] \in Section => q = p
                           /\ pc'[q] \notin {"write", "unlock"}
  BY <1>2 DEF Typed, TypeOK, Section
<1>4. heldFor'[p] = 0 /\ pc'[p] \in Section /\ 0 <= StaleAfter
  BY LockAssumption DEF Typed, TypeOK, TakeLock, Section
<1>5. judged' = {}
  BY <1>1 DEF Sound
<1> QED
  BY <1>1, <1>3, <1>4, <1>5 DEF Sound

\* A process outside the section that stays outside, or dies, changes nothing.
LEMMA OutsideSound ==
  ASSUME Typed, Sound, NEW p \in Processes, NEW to,
         pc[p] \notin Section \cup {"dead"}, to \notin Section,
         pc' = [pc EXCEPT ![p] = to],
         UNCHANGED <<lock, file, seen, heldFor, answered>>,
         judged' # {} => lock # NoLock /\ pc[lock.owner] = "dead"
  PROVE  Sound'
<1>1. \A q \in Processes :
        /\ pc'[q] \in Section => pc[q] = pc'[q]
        /\ pc[q] \in Section \cup {"dead"} => pc'[q] = pc[q]
  BY DEF Typed, TypeOK
<1>2. lock # NoLock => lock.owner \in Processes
  BY DEF Typed, TypeOK, Locks
<1> QED
  BY <1>1, <1>2 DEF Sound, Section

LEMMA OpenSound ==
  ASSUME Typed, Sound, NEW p \in Processes, OpenLock(p) \/ ReopenLock(p)
  PROVE  Sound'
<1>1. CASE lock = NoLock
  BY <1>1, TakeSound DEF OpenLock, ReopenLock, Goto, history
<1>2. CASE lock # NoLock
  <2>1. PICK to \in {"stat", "idle"} : pc' = [pc EXCEPT ![p] = to]
    BY <1>2 DEF OpenLock, ReopenLock, TakeLock, Goto
  <2>2. /\ UNCHANGED <<lock, file, seen, heldFor, answered, judged>>
        /\ pc[p] \in {"open", "reopen"}
    BY <1>2 DEF OpenLock, ReopenLock, TakeLock, Goto, history
  <2>3. judged' # {} => lock # NoLock /\ pc[lock.owner] = "dead"
    BY <2>2 DEF Sound
  <2> QED
    BY <2>1, <2>2, <2>3, OutsideSound DEF Section
<1> QED
  BY <1>1, <1>2

\* Only a dead process's lock grows stale.
LEMMA StatSound ==
  ASSUME Typed, Sound, NEW p \in Processes, StatLock(p)
  PROVE  Sound'
<1>1. ASSUME lock # NoLock, lock.age > StaleAfter PROVE pc[lock.owner] = "dead"
  <2>1. lock.owner \in Processes /\ lock.age \in Nat
    BY <1>1, LockAssumption DEF Typed, TypeOK, Locks
  <2>2. pc[lock.owner] \in Section => lock.age <= StaleAfter
    BY <2>1 DEF Sound
  <2> QED
    BY <1>1, <2>1, <2>2, LockAssumption DEF Sound
<1>2. PICK to \in {"idle", "unlink"} : pc' = [pc EXCEPT ![p] = to]
  BY DEF StatLock, Goto
<1>3. judged' # {} => lock # NoLock /\ pc[lock.owner] = "dead"
  BY <1>1 DEF StatLock, Sound
<1>4. pc[p] = "stat" /\ UNCHANGED <<lock, file, seen, heldFor, answered>>
  BY DEF StatLock, Goto
<1> QED
  BY <1>2, <1>3, <1>4, OutsideSound DEF Section

LEMMA UnlinkSound ==
  ASSUME Typed, Sound, NEW p \in Processes, UnlinkStale(p), ~strayed'
  PROVE  Sound'
<1>1. lock = NoLock \/ pc[lock.owner] = "dead"
  BY DEF UnlinkStale, Strays, Sound
<1>2. \A q \in Processes : pc[q] \notin Section
  BY <1>1, Empty
<1>3. \A q \in Processes : pc'[q] \notin Section
  BY <1>2 DEF UnlinkStale, Goto, Typed, TypeOK, Section
<1> QED
  BY <1>3 DEF Sound, UnlinkStale, RemoveLock, Section

LEMMA ReadSound ==
  ASSUME Typed, Sound, NEW p \in Processes, ReadState(p)
  PROVE  Sound'
<1>1. /\ UNCHANGED <<lock, file, heldFor, answered, judged>>
      /\ pc[p] = "read" /\ pc' = [pc EXCEPT ![p] = "write"]
      /\ seen' = [seen EXCEPT ![p] = file]
  BY DEF ReadState, Goto, history
<1>2. \A q \in Processes : /\ pc'[q] \in Section <=> pc[q] \in Section
                           /\ pc'[q] = "dead" <=> pc[q] = "dead"
                           /\ pc'[q] \in {"write", "unlock"} => seen'[q] = file
  BY <1>1 DEF Sound, Typed, TypeOK, Section
<1>3. lock # NoLock => lock.owner \in Processes
  BY DEF Typed, TypeOK, Locks
<1> QED
  BY <1>1, <1>2, <1>3 DEF Sound

\* A write extends the file it was read from: nobody wrote in between.
LEMMA WriteExtends ==
  ASSUME Typed, Sound, NEW p \in Processes, WriteState(p)
  PROVE  /\ request[p] \in Keys
         /\ \/ UNCHANGED file
            \/ request[p] \notin ToSet(file) /\ file' = Append(file, request[p])
         /\ seen' = [seen EXCEPT ![p] = file']
<1>1. pc[p] = "write" /\ seen[p] = file /\ request[p] \in Keys
  BY DEF WriteState, Goto, Sound, Typed
<1>2. CASE UNCHANGED <<file, seen>>
  BY <1>1, <1>2 DEF Typed, TypeOK
<1>3. CASE ~UNCHANGED <<file, seen>>
  BY <1>1, <1>3 DEF WriteState
<1> QED
  BY <1>2, <1>3

\* So what the writer has read is the file again, and no answer is undone.
LEMMA WriteSound ==
  ASSUME Typed, Sound, NEW p \in Processes, WriteState(p) \/ RejectRequest(p)
  PROVE  Sound'
<1>1. /\ UNCHANGED <<lock, heldFor, answered, judged>>
      /\ pc[p] = "write" /\ pc' = [pc EXCEPT ![p] = "unlock"]
  BY DEF WriteState, RejectRequest, Goto, history
<1>2. /\ file \in Seq(Keys) /\ file' \in Seq(Keys) /\ Len(file') >= Len(file)
      /\ \A i \in 1..Len(file) : file'[i] = file[i]
      /\ seen'[p] = file'
  <2>1. file \in Seq(Keys)
    BY DEF Typed, TypeOK
  <2>2. CASE WriteState(p)
    <3>1. request[p] \in Keys /\ seen' = [seen EXCEPT ![p] = file']
      BY <2>2, WriteExtends
    <3>2. CASE UNCHANGED file
      BY <2>1, <3>1, <3>2 DEF Typed, TypeOK
    <3>3. CASE file' = Append(file, request[p])
      BY <2>1, <3>1, <3>3 DEF Typed, TypeOK
    <3> QED
      BY <2>2, <3>2, <3>3, WriteExtends
  <2>3. CASE RejectRequest(p)
    BY <1>1, <2>1, <2>3 DEF RejectRequest, Sound
  <2> QED
    BY <2>2, <2>3
<1>3. \A q \in Processes : /\ pc'[q] \in Section <=> pc[q] \in Section
                           /\ pc'[q] = "dead" <=> pc[q] = "dead"
                           /\ pc[q] \in Section => q = p
  BY <1>1, Alone DEF Typed, TypeOK, Section
<1>4. \A q \in Processes : pc'[q] \in {"write", "unlock"} => seen'[q] = file'
  BY <1>2, <1>3 DEF Section
<1>5. lock # NoLock => lock.owner \in Processes
  BY DEF Typed, TypeOK, Locks
<1>6. \A a \in answered : a[2] <= Len(file') /\ file'[a[2]] = a[1]
  <2> SUFFICES ASSUME NEW a \in answered
               PROVE  a[2] <= Len(file') /\ file'[a[2]] = a[1]
    OBVIOUS
  <2>1. a[2] \in Nat \ {0} /\ a[2] <= Len(file) /\ file[a[2]] = a[1]
    BY DEF Typed, TypeOK, Sound
  <2> QED
    BY <1>2, <2>1
<1> QED
  BY <1>1, <1>3, <1>4, <1>5, <1>6 DEF Sound

LEMMA UnlockSound ==
  ASSUME Typed, Sound, NEW p \in Processes, Unlock(p)
  PROVE  Sound'
<1>1. /\ lock' = NoLock /\ judged' = {} /\ UNCHANGED file
      /\ pc[p] = "unlock" /\ pc' = [pc EXCEPT ![p] = "idle"]
      /\ answered' = answered \cup Answers(p)
  BY DEF Unlock, RemoveLock, Goto
<1>2. seen[p] = file
  BY <1>1 DEF Sound
<1>3. \A q \in Processes : pc'[q] \notin Section
  <2>1. \A q \in Processes : pc[q] \in Section => q = p
    BY <1>1, Alone DEF Section
  <2> QED
    BY <1>1, <2>1 DEF Typed, TypeOK, Section
<1>4. \A a \in answered' : a[2] <= Len(file) /\ file[a[2]] = a[1]
  BY <1>1, <1>2, AnswersTyped DEF Sound
<1> QED
  BY <1>1, <1>3, <1>4 DEF Sound, Section

\* A death leaves the lock, which is then a dead process's.
LEMMA CrashSound ==
  ASSUME Typed, Sound, NEW p \in Processes, Crash(p)
  PROVE  Sound'
<1>1. /\ UNCHANGED <<lock, file, seen, heldFor, answered, judged>>
      /\ pc' = [pc EXCEPT ![p] = "dead"]
  BY DEF Crash, history
<1>2. \A q \in Processes : pc'[q] = pc[q] \/ pc'[q] = "dead"
  BY <1>1 DEF Typed, TypeOK
<1>3. lock # NoLock => lock.owner \in Processes
  BY DEF Typed, TypeOK, Locks
<1> QED
  BY <1>1, <1>2, <1>3 DEF Sound, Section

LEMMA TickSound ==
  ASSUME Typed, Sound, Timely, Tick
  PROVE  Sound'
<1>1. \A q \in Processes : pc[q] \in Section => heldFor[q] < StaleAfter
  BY DEF Tick
<1>2. /\ UNCHANGED <<file, pc, seen, answered, judged>>
      /\ heldFor' = [q \in Processes |->
                       IF pc[q] \in Section THEN Older(heldFor[q]) ELSE heldFor[q]]
  BY DEF Tick, history
<1>3. \A q \in Processes : pc'[q] \in Section =>
        /\ lock' # NoLock /\ lock'.owner = q
        /\ lock'.age = heldFor'[q] /\ heldFor'[q] <= StaleAfter
  BY <1>1, <1>2, Aging DEF Sound, Typed, TypeOK
<1>4. lock' # NoLock => lock # NoLock /\ lock'.owner = lock.owner
  BY Aging DEF Typed
<1>5. lock # NoLock => lock' # NoLock
  BY Aging DEF Typed
<1> QED
  BY <1>2, <1>3, <1>4, <1>5 DEF Sound

LEMMA StepInv == LockInv /\ Timely /\ [Next]_vars => LockInv'
<1> SUFFICES ASSUME LockInv, Timely, [Next]_vars, ~strayed' PROVE Sound'
  BY TypedStep DEF LockInv
<1>1. ~strayed
  BY DEF Next, Step, Start, OpenLock, TakeLock, StatLock, UnlinkStale, ReopenLock,
         ReadState, WriteState, RejectRequest, Unlock, Crash, Tick, vars, history
<1>2. Typed /\ Sound
  BY <1>1 DEF LockInv
<1>3. ASSUME NEW p \in Processes, NEW k \in Keys, Start(p, k) PROVE Sound'
  <2>1. /\ pc[p] = "idle" /\ pc' = [pc EXCEPT ![p] = "open"]
        /\ UNCHANGED <<lock, file, seen, heldFor, answered, judged>>
    BY <1>3 DEF Start, Goto, history
  <2>2. judged' # {} => lock # NoLock /\ pc[lock.owner] = "dead"
    BY <1>2, <2>1 DEF Sound
  <2> QED
    BY <1>2, <2>1, <2>2, OutsideSound DEF Section
<1>4. ASSUME NEW p \in Processes, Step(p) PROVE Sound'
  BY <1>2, <1>4, OpenSound, StatSound, UnlinkSound, ReadSound, WriteSound, UnlockSound
  DEF Step
<1>5. CASE UNCHANGED vars
  BY <1>2, <1>5 DEF vars, history, Sound
<1> QED
  BY <1>2, <1>3, <1>4, <1>5, CrashSound, TickSound DEF Next

-----------------------------------------------------------------------------
(* The theorems.                                                           *)

LEMMA LockInvariant == ASSUME Timely PROVE Spec => []LockInv
<1>1. LockInv /\ [Next]_vars => LockInv'
  BY StepInv
<1> QED
  BY InitInv, <1>1, PTL DEF Spec

\* withLock() lets one process at a time read and rewrite the state file, over
\* deaths inside and the recovery of stale locks, until an unlink strays.
THEOREM WritesAreExclusive == ASSUME Timely PROVE Spec => []ExclusiveUnlessStrayed
<1>1. LockInv => ExclusiveUnlessStrayed
  BY Alone DEF ExclusiveUnlessStrayed, LockInv
<1> QED
  BY <1>1, LockInvariant, PTL

\* A caller that was told its request is accepted can rely on it: no later
\* write or death drops it or moves it to another revision, unless one strays.
THEOREM AnswersStay == ASSUME Timely PROVE Spec => []AnswersAreDurable
<1>1. LockInv => AnswersAreDurable
  BY DEF LockInv, Sound, AnswersAreDurable
<1> QED
  BY <1>1, LockInvariant, PTL

\* The state file is a serial store: every step of every process either leaves
\* its content alone or applies one more request to the latest content, unless
\* an unlink has strayed.
THEOREM FileIsSerial == ASSUME Timely PROVE Spec => SerialSpec
<1>1. Init => Serial!Init
  BY DEF Init, Serial!Init
<1>2. LockInv /\ [Next]_vars => [Serial!Next]_(Serial!vars)
  <2> SUFFICES ASSUME LockInv, [Next]_vars, ~strayed' PROVE [Serial!Next]_(Serial!vars)
    BY DEF Serial!Next, Serial!Fork
  <2>0. ~strayed
    BY DEF Next, Step, Start, OpenLock, TakeLock, StatLock, UnlinkStale, ReopenLock,
           ReadState, WriteState, RejectRequest, Unlock, Crash, Tick, vars, history
  <2>1. Typed /\ Sound
    BY <2>0 DEF LockInv
  <2>2. strayed' = strayed
    BY <2>0, TypedStep DEF LockInv, Typed, TypeOK
  <2>3. ASSUME NEW p \in Processes, WriteState(p) PROVE [Serial!Next]_(Serial!vars)
    BY <2>0, <2>1, <2>2, <2>3, WriteExtends
    DEF Serial!Next, Serial!Apply, Serial!vars, Serial!ToSet, ToSet
  <2>4. ASSUME ~\E p \in Processes : WriteState(p) PROVE UNCHANGED file
    BY <2>4 DEF Next, Step, Start, OpenLock, TakeLock, StatLock, UnlinkStale,
                ReopenLock, ReadState, RejectRequest, Unlock, Crash, Tick, vars
  <2> QED
    BY <2>2, <2>3, <2>4 DEF Serial!vars
<1> QED
  BY <1>1, <1>2, LockInvariant, PTL DEF Spec, SerialSpec, Serial!Spec
=============================================================================
