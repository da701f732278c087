SPECIFICATION FairSpec
CONSTANTS
  Processes = {p1, p2, p3}
  Keys = {k1, k2}
  StaleAfter = 1
  Timely = TRUE
  MaxCrashes = 1
  NoLock = NoLock
  NoKey = NoKey
INVARIANTS ExclusiveUnlessStrayed AnswersAreDurable
PROPERTIES SerialSpec DeadLockGoes
