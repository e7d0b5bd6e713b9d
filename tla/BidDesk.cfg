SPECIFICATION Spec
CONSTANTS
  main = main
  twink = twink
  Starts <- MCStarts
  Players = {p}
  Admins = {p}
  RoleHolders <- MCRoleHolders
  Characters = {main, twink}
  Usable = {main}
  Levels = {59, 60}
  Attendances = {40, 60}
  Balance = 2
  Channels = {1, 2}
  Lists <- MCLists
  Knobs <- MCKnobs
  AuctionIds = {a}
  MinBids = {}
  Costs = {3}
  Amounts = {0, 2, 3}
  Tasks = {t1, t2}
  MaxExtras = 1
  MaxClicks = 5
SYMMETRY TaskSymmetry
INVARIANT
  CountedOnce
PROPERTIES
  OfferedMeansTaken
  NoStaleBid
CHECK_DEADLOCK FALSE
