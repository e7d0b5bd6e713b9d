SPECIFICATION Spec
CONSTANTS
  MaxCmds = 2
  BatchSizes = {1}
  SegmentMax = 2
  Months = {1}
  ClockBack = FALSE
  Faults = {"write"}
  Half = Half
  Bad = Bad
INVARIANT AckedSurvive
CHECK_DEADLOCK FALSE
