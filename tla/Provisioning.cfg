SPECIFICATION Spec
CONSTANTS
  ann = ann
  bob = bob
  Users <- MCUsers
  Sorted <- MCSorted
  Service = bot
  Width <- MCWidth
  Tasks = {t1, t2}
  MaxTokens = 2
  MaxClicks = 2
  MaxFaults = 1
INVARIANTS NothingUnrecorded InStep
PROPERTY ImportChangesNothing
CHECK_DEADLOCK FALSE
SYMMETRY MCTasksAlike
