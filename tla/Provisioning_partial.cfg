SPECIFICATION Spec
CONSTANTS
  ann = ann
  bob = bob
  Users <- MCUsers
  Sorted <- MCSorted
  Service = bot
  Width <- MCWidth
  Tasks = {t1, t2}
  MaxTokens = 2
  MaxClicks = 2
  MaxFaults = 0
INVARIANT NeverPartial
CHECK_DEADLOCK FALSE
SYMMETRY MCTasksAlike
