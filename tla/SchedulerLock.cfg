SPECIFICATION FairSpec
CONSTANTS
  Processes = {p1, p2, p3}
  Remote = {p3}
  MaxCrashes = 1
  MaxLapses = 1
  MaxGeneration = 2
  None = None
CHECK_DEADLOCK FALSE
INVARIANTS HoldersExclude LostLocksStayLost
PROPERTIES LiveRecordsAreNotDeleted AbandonedLockGoes
