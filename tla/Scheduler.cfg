SPECIFICATION Spec
CONSTANTS
  w1 = w1
  w2 = w2
  w3 = w3
  Works <- Two
  Conflicts <- TheConflict
  Capacity = 2
  MaxReservations = 2
  MaxJournal = 2
  MaxMishaps = 2
SYMMETRY Symmetry
CHECK_DEADLOCK FALSE
INVARIANTS ClaimsDoNotCollide ReleasedClaimsHoldNothing SettledClaimsMatchTheStores ClaimsAreTraceable
PROPERTIES ClaimsOnlyAdvance
