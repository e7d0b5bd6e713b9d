SPECIFICATION FairSpec
CONSTANTS
  MaxCmds = 3
  BatchSizes = {2}
  SegmentMax = 3
  Months = {1, 2}
  ClockBack = FALSE
  Faults = {"sync", "compact"}
  Half = Half
  Bad = Bad
INVARIANTS
  StoreTypeOK
  AckedSurvive
  LogFollowsLedger
  LedgerIsReplay
  NeverRefused
PROPERTIES
  IsDurableLog
  BackToTheQueue
CHECK_DEADLOCK FALSE
