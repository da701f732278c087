SPECIFICATION Spec
CONSTANTS
  w1 = w1
  w2 = w2
  w3 = w3
  Works <- Two
  Conflicts <- NoConflicts
  Capacity = 2
  MaxReservations = 2
  MaxJournal = 1
  MaxMishaps = 1
SYMMETRY Symmetry
CHECK_DEADLOCK FALSE
INVARIANTS HealthyClaimsAreKept
