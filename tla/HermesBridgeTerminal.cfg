SPECIFICATION FairSpec
CONSTANTS
  Outcomes = {o1}
  MaxRounds = 1
  MaxRedispatches = 2
  MaxFaults = 1
CHECK_DEADLOCK FALSE
PROPERTIES TerminalCheckpointsStand
