SPECIFICATION Spec
CONSTANTS
  Bidders = {a, b, c}
  Amounts = {1, 2}
  Attendances = {0, 1}
  Locks = {0, 2}
  Overs = {0, 1}
  Rollers = {a, b, c, d}
  MaxRoll = 3
  MaxItems = 3
  MaxRounds = 2
INVARIANTS
  PicksAreWinners
  FairToLosers
  FieldExceedsSlots
  RollsAreWinners
PROPERTY EveryItemGoes
CHECK_DEADLOCK FALSE
