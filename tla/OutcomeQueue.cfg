SPECIFICATION Spec
CONSTANTS
  Outcomes = {o1, o2}
  Supervisors = {s1, s2}
  Campaign = {o1}
  MaxChanges = 6
  MaxKeys = 2
SYMMETRY Symmetry
CHECK_DEADLOCK FALSE
INVARIANTS FencesNameOneHolding OneInFlightUnlessReclaimed
PROPERTIES LeasesStartWithNewFence LeasesStartAuthorized ActiveWorkOwnsItsVersion
