SPECIFICATION Spec
CONSTANTS
  ann = ann
  bob = bob
  Users <- MCUsers
  Sorted <- MCSorted
  Service = bot
  Width <- MCWidth
  Tasks = {t1, t2}
  MaxTokens = 3
  MaxClicks = 3
  MaxFaults = 0
INVARIANT ServiceLineStays
CHECK_DEADLOCK FALSE
SYMMETRY MCTasksAlike
