SPECIFICATION Spec
CONSTANTS
  MaxCmds = 3
  BatchSizes = {1}
  SegmentMax = 2
  Months = {1, 2}
  ClockBack = TRUE
  Faults = {}
  Half = Half
  Bad = Bad
INVARIANT NeverRefused
CHECK_DEADLOCK FALSE
