SPECIFICATION Spec
CONSTANTS
  AuctionIds = {1}
  Flavors = {"long", "roll"}
  Durations = {1}
  Grace = 0
  Faults = {"stop", "storage", "discord", "timeout"}
  MaxFaults = 2
  MaxTime = 1
  MaxChanges = 1
  Tasks = {t1, t2}
  Free = Free
  EditAttempts = 2
INVARIANTS
  NothingLost
PROPERTIES
  NeverBackwards
  PostCatchesUp
CHECK_DEADLOCK FALSE
