SPECIFICATION SchedSpec
CONSTANTS
  AuctionIds = {1, 2}
  Flavors = {"short", "long", "roll"}
  Durations = {1}
  Grace = 1
  Faults = {"stop", "storage"}
  MaxFaults = 2
  MaxTime = 3
  MaxChanges = 0
INVARIANT SchedTypeOK
PROPERTIES
  NeverEarly
  TimersFire
CHECK_DEADLOCK FALSE
