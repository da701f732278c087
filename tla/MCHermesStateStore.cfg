SPECIFICATION Spec
CONSTANTS
  Outcomes = {o1}
  Holders = {h1, h2}
  Evidence = {"e1", "e2"}
  Writes <- RecoveryWrites
  Durations = {1}
  MaxTime = 1
  MaxRevision = 7
  MaxTouches = 1
  RetireSequence = 1
  CleanupSequence = 2
  NoExecution = NoExecution
SYMMETRY Symmetry
INVARIANTS FencesIssuedOnce RecoveredStatesCarryEvidence
PROPERTIES AcceptedFencesNeverDecrease HoldingStartsWithNewFence UnexpiredLeaseKeepsFence KillSwitchStopsWork RecoveryRevokesHolder TouchedRunsAreNotRecovered
