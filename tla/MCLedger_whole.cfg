SPECIFICATION LedgerSpec
CONSTANTS
  p1 = p1
  p2 = p2
  Players = {p1}
  Nobody = Nobody
  NoRaid = NoRaid
  Characters = {c}
  RaidIds = {r1, r2}
  Names = {n1, n2}
  Kills = {}
  Deltas <- Minus1
  TickDkps = {1}
  Awards = {}
  TickInterval = 1
  ClockSteps = {}
  MaxTime = 0
  MaxSeq = 13
  AuctionIds = {a1}
  Offers <- OneOffer
  Amounts = {1}
  Attendances = {100}
  MainLine = 0
  AltLine = 0
  MaxRoll = 1
  Seeds <- OneSeed
SYMMETRY RaidSymmetry
INVARIANTS
  HistoryExplainsBalance
  LinesNameTheirRaid
CHECK_DEADLOCK FALSE
