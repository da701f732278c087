SPECIFICATION Spec
CONSTANTS
  Outcomes = {o1, o2, o3}
  Supervisors = {s1}
  Campaign = {}
  MaxChanges = 3
  MaxKeys = 1
SYMMETRY Symmetry
CHECK_DEADLOCK FALSE
INVARIANTS GraphIsLive DependenciesFirst
PROPERTIES TerminalsAreFinal
