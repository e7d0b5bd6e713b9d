SPECIFICATION Spec
CONSTANTS
  AuctionIds = {1}
  Flavors = {"long", "roll"}
  Durations = {1}
  Grace = 1
  Faults = {"timeout"}
  MaxFaults = 2
  MaxTime = 2
  MaxChanges = 1
  Tasks = {t1}
  Free = Free
  EditAttempts = 2
INVARIANT
  RetryFindsPost
CHECK_DEADLOCK FALSE
