SPECIFICATION Spec
CONSTANTS
  MaxCmds = 3
  BatchSizes = {1, 2}
  SegmentMax = 2
  Months = {1}
  ClockBack = FALSE
  Faults = {"write", "sync"}
  Half = Half
  Bad = Bad
INVARIANT ReplayAgrees
CHECK_DEADLOCK FALSE
