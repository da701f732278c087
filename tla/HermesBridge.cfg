SPECIFICATION FairSpec
CONSTANTS
  Outcomes = {o1}
  MaxRounds = 1
  MaxRedispatches = 2
  MaxFaults = 2
CHECK_DEADLOCK FALSE
INVARIANTS TypeOK MergedWorkWasChecked SettledTogether ParkedWorkIsIdle TurnsAreHeld
PROPERTIES MergedIsSettled
