SPECIFICATION FairSpec
CONSTANTS
  Processes = {p1, p2, p3}
  Stores = {"lane-lease", "reservation", "evidence"}
  MaxCrashes = 1
  NoLock = NoLock
  NoOwner = NoOwner
INVARIANTS StolenOnlyByStraying
PROPERTIES DeadOwnerIsReplaced AbandonedLockGoes AttemptsEndOrRename
