SPECIFICATION Spec
CONSTANTS
  ann = ann
  bob = bob
  Users <- MCUsers
  Sorted <- MCSorted
  Service = bot
  Width <- MCWidth
  Tasks = {t1, t2}
  MaxTokens = 0
  MaxClicks = 1
  MaxFaults = 0
PROPERTY ImportByteIdentical
CHECK_DEADLOCK FALSE
SYMMETRY MCTasksAlike
