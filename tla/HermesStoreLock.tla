--------------------------- MODULE HermesStoreLock ---------------------------
(***************************************************************************)
(* How the bridge's state file is updated: withLock() takes file.lock by   *)
(* an exclusive open, mutate() reads the file, applies one request or      *)
(* replays its key, and atomicWrite() renames a new file into place.  A    *)
(* lock file older than STALE_LOCK_MS is unlinked by whoever finds it, and *)
(* a process that finishes unlinks whatever lock file is there.            *)
(*                                                                         *)
(* The content of the file is abstracted to the keys it has applied, in    *)
(* order; HermesStateStore models what each request does to it.            *)
(***************************************************************************)
EXTENDS Naturals, Sequences, FiniteSets, SequencesExt

CONSTANTS
  Processes,   \* the supervisor's cycles and the operator's commands
  Keys,        \* idempotency keys; a retry uses the key of the first attempt
  StaleAfter,  \* STALE_LOCK_MS, in ticks
  Timely,      \* whether an operation ends within STALE_LOCK_MS of its open
  MaxCrashes,  \* bound of the processes that die
  NoLock, NoKey

ASSUME LockAssumption ==
  /\ IsFiniteSet(Processes)
  /\ StaleAfter \in Nat \ {0}
  /\ Timely \in BOOLEAN
  /\ MaxCrashes \in Nat

Locks == [owner : Processes, age : 0..StaleAfter + 1]

ASSUME NoLockAssumption == NoLock \notin Locks

ASSUME NoKeyAssumption == NoKey \notin Keys

VARIABLES
  lock,      \* file.lock: who created it and how long ago, or NoLock
  file,      \* the state file: the keys applied, in order
  pc,        \* where each process is in withLock
  request,   \* the key each process works on
  seen,      \* the state each process has read
  heldFor,   \* how long ago each process took the lock
  answered,  \* the keys whose callers were told: accepted, with the revision
  judged,    \* history: who found stale the very lock file that is in place
  strayed    \* history: an unlink took another file than the one found stale

history == <<judged, strayed>>
vars == <<lock, file, pc, request, seen, heldFor, answered, history>>

Section == {"read", "write", "unlock"}

Goto(p, from, to) == pc[p] = from /\ pc' = [pc EXCEPT ![p] = to]

Init ==
  /\ lock = NoLock
  /\ file = <<>>
  /\ pc = [p \in Processes |-> "idle"]
  /\ request = [p \in Processes |-> NoKey]
  /\ seen = [p \in Processes |-> <<>>]
  /\ heldFor = [p \in Processes |-> 0]
  /\ answered = {}
  /\ judged = {}
  /\ strayed = FALSE

Start(p, k) ==
  /\ Goto(p, "idle", "open")
  /\ request' = [request EXCEPT ![p] = k]
  /\ UNCHANGED <<lock, file, seen, heldFor, answered, history>>

TakeLock(p) ==
  /\ lock = NoLock
  /\ lock' = [owner |-> p, age |-> 0]
  /\ heldFor' = [heldFor EXCEPT ![p] = 0]

\* The definitions named Faulty... are mutants: each replaces the definition
\* after it to show that some property would notice the fault.
FaultyOpenLock(p) ==
  /\ Goto(p, "open", "read")
  /\ lock' = [owner |-> p, age |-> 0]
  /\ heldFor' = [heldFor EXCEPT ![p] = 0]
  /\ UNCHANGED <<file, request, seen, answered, history>>

\* openSync(lockPath, "wx"), first attempt.
OpenLock(p) ==
  /\ \/ TakeLock(p) /\ Goto(p, "open", "read")
     \/ lock # NoLock /\ Goto(p, "open", "stat") /\ UNCHANGED <<lock, heldFor>>
  /\ UNCHANGED <<file, request, seen, answered, history>>

FaultyStatLock(p) ==
  /\ \/ lock = NoLock /\ Goto(p, "stat", "idle") /\ UNCHANGED judged
     \/ lock # NoLock /\ Goto(p, "stat", "unlink") /\ judged' = judged \cup {p}
  /\ UNCHANGED <<lock, file, request, seen, heldFor, answered, strayed>>

FaultyStatLockKeepsStale(p) ==
  /\ Goto(p, "stat", "idle")
  /\ UNCHANGED <<lock, file, request, seen, heldFor, answered, history>>

\* A fresh lock, and one that has just gone, both answer HERMES_STATE_BUSY.
StatLock(p) ==
  /\ \/ lock = NoLock /\ Goto(p, "stat", "idle") /\ UNCHANGED judged
     \/ /\ lock # NoLock /\ lock.age <= StaleAfter
        /\ Goto(p, "stat", "idle") /\ UNCHANGED judged
     \/ /\ lock # NoLock /\ lock.age > StaleAfter
        /\ Goto(p, "stat", "unlink") /\ judged' = judged \cup {p}
  /\ UNCHANGED <<lock, file, request, seen, heldFor, answered, strayed>>

\* What was found stale is gone for everybody who found it.
RemoveLock == lock' = NoLock /\ judged' = {}

Strays(p) == lock # NoLock /\ p \notin judged

\* The unlink takes the file that has the name, not the one whose age was read.
UnlinkStale(p) ==
  /\ \/ lock = NoLock /\ Goto(p, "unlink", "idle")
     \/ lock # NoLock /\ Goto(p, "unlink", "reopen")
  /\ RemoveLock
  /\ strayed' = (strayed \/ Strays(p))
  /\ UNCHANGED <<file, request, seen, heldFor, answered>>

ReopenLock(p) ==
  /\ \/ TakeLock(p) /\ Goto(p, "reopen", "read")
     \/ lock # NoLock /\ Goto(p, "reopen", "idle") /\ UNCHANGED <<lock, heldFor>>
  /\ UNCHANGED <<file, request, seen, answered, history>>

ReadState(p) ==
  /\ Goto(p, "read", "write")
  /\ seen' = [seen EXCEPT ![p] = file]
  /\ UNCHANGED <<lock, file, request, heldFor, answered, history>>

FaultyWriteState(p) ==
  /\ Goto(p, "write", "unlock")
  /\ file' = Append(seen[p], request[p])
  /\ seen' = [seen EXCEPT ![p] = file']
  /\ UNCHANGED <<lock, request, heldFor, answered, history>>

\* A key the state holds already is answered without a write, a rejected
\* request without a trace; any other is applied to the state that was read.
WriteState(p) ==
  /\ Goto(p, "write", "unlock")
  /\ \/ request[p] \in ToSet(seen[p]) /\ UNCHANGED <<file, seen>>
     \/ /\ request[p] \notin ToSet(seen[p])
        /\ file' = Append(seen[p], request[p])
        /\ seen' = [seen EXCEPT ![p] = file']
  /\ UNCHANGED <<lock, request, heldFor, answered, history>>

RejectRequest(p) ==
  /\ Goto(p, "write", "unlock")
  /\ request[p] \notin ToSet(seen[p])
  /\ UNCHANGED <<lock, file, request, seen, heldFor, answered, history>>

\* The finally block.  When the lock file has gone its unlink throws, and the
\* caller of an applied request gets an error instead of an answer.
Answers(p) ==
  IF lock # NoLock /\ request[p] \in ToSet(seen[p])
  THEN {<<request[p], CHOOSE i \in DOMAIN seen[p] : seen[p][i] = request[p]>>}
  ELSE {}

Unlock(p) ==
  /\ Goto(p, "unlock", "idle")
  /\ RemoveLock
  /\ answered' = answered \cup Answers(p)
  /\ request' = [request EXCEPT ![p] = NoKey]
  /\ seen' = [seen EXCEPT ![p] = <<>>]
  /\ UNCHANGED <<file, heldFor, strayed>>

Crash(p) ==
  /\ pc[p] \notin {"idle", "dead"}
  /\ Cardinality({q \in Processes : pc[q] = "dead"}) < MaxCrashes
  /\ pc' = [pc EXCEPT ![p] = "dead"]
  /\ UNCHANGED <<lock, file, request, seen, heldFor, answered, history>>

Older(n) == IF n > StaleAfter THEN n ELSE n + 1

Tick ==
  /\ Timely => \A p \in Processes : pc[p] \in Section => heldFor[p] < StaleAfter
  /\ lock' = IF lock = NoLock THEN lock ELSE [lock EXCEPT !.age = Older(@)]
  /\ heldFor' = [p \in Processes |->
                   IF pc[p] \in Section THEN Older(heldFor[p]) ELSE heldFor[p]]
  /\ UNCHANGED <<file, pc, request, seen, answered, history>>

Step(p) ==
  \/ OpenLock(p) \/ StatLock(p) \/ UnlinkStale(p) \/ ReopenLock(p)
  \/ ReadState(p) \/ WriteState(p) \/ RejectRequest(p) \/ Unlock(p)

Next ==
  \/ \E p \in Processes : Step(p) \/ Crash(p) \/ \E k \in Keys : Start(p, k)
  \/ Tick

Spec == Init /\ [][Next]_vars

\* A live process runs on, a caller that was told BUSY comes back (the
\* supervisor starts a cycle on a schedule), and time passes.
Fairness ==
  /\ \A p \in Processes : /\ WF_vars(Step(p))
                          /\ WF_vars(\E k \in Keys : Start(p, k))
  /\ WF_vars(Tick)

FairSpec == Spec /\ Fairness

-----------------------------------------------------------------------------
TypeOK ==
  /\ lock \in Locks \cup {NoLock}
  /\ file \in Seq(Keys)
  /\ pc \in [Processes -> {"idle", "open", "stat", "unlink", "reopen", "dead"}
                            \cup Section]
  /\ request \in [Processes -> Keys \cup {NoKey}]
  /\ seen \in [Processes -> Seq(Keys)]
  /\ heldFor \in [Processes -> 0..StaleAfter + 1]
  /\ answered \subseteq Keys \X (Nat \ {0})
  /\ judged \subseteq Processes
  /\ strayed \in BOOLEAN

\* "State transitions use exclusive atomic writes": two processes are never
\* between taking the lock and giving it up at the same time, whoever died and
\* whoever recovers what the dead left, until an unlink takes another file than
\* the one its process found stale.  Two waiters that found the same lock stale
\* get there: the second unlinks the fresh lock of the first.
ExclusiveUnlessStrayed ==
  strayed \/ \A p, q \in Processes :
               pc[p] \in Section /\ pc[q] \in Section => p = q

\* What a caller was told stays true: the request it had accepted is in the
\* file, at the revision it was told, whoever wrote or died since.  Only an
\* unlink that strayed can make it false.
AnswersAreDurable ==
  strayed \/ \A a \in answered : a[2] <= Len(file) /\ file[a[2]] = a[1]

\* The file behaves as one sequence of requests, each applied once to what the
\* one before it left, over deaths in the middle of a request and retries of
\* it; SerialStore says that an unlink that strayed ends this.
Serial == INSTANCE SerialStore WITH log <- file, forked <- strayed
SerialSpec == Serial!Spec

\* A lock left behind by a crash does not stop the bridge for ever, strays
\* or not.
DeadLockGoes ==
  (lock # NoLock /\ pc[lock.owner] = "dead")
    ~> (lock = NoLock \/ pc[lock.owner] # "dead")
=============================================================================
