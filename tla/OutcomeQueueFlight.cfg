SPECIFICATION Spec
CONSTANTS
  Outcomes = {o1, o2}
  Supervisors = {s1}
  Campaign = {}
  MaxChanges = 8
  MaxKeys = 2
SYMMETRY Symmetry
CHECK_DEADLOCK FALSE
INVARIANTS OneInFlight
