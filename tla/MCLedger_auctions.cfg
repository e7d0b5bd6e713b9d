SPECIFICATION LedgerSpec
CONSTANTS
  p1 = p1
  p2 = p2
  Players <- MCPlayers
  Nobody = Nobody
  NoRaid = NoRaid
  Characters = {}
  RaidIds = {}
  Names = {n}
  Kills = {}
  Deltas = {2}
  TickDkps = {1}
  Awards = {}
  TickInterval = 1
  ClockSteps = {}
  MaxTime = 0
  MaxSeq = 9
  AuctionIds = {a1, a2}
  Offers <- MixedOffers
  Amounts = {1, 2}
  Attendances = {20, 40, 90}
  MainLine = 50
  AltLine = 30
  MaxRoll = 1
  Seeds <- MCSeeds
SYMMETRY AuctionSymmetry
INVARIANTS
  LedgerTypeOK
  ChargedOnce
  BalanceNonNegative
PROPERTIES
  BidsCovered
  SettledStays
  ChargedAsProposed
CHECK_DEADLOCK FALSE
