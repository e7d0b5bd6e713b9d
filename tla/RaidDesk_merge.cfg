SPECIFICATION DeskSpec
CONSTANTS
  Players = {p1}
  Nobody = Nobody
  NoRaid = NoRaid
  Characters = {}
  RaidIds = {r1, r2}
  Names = {n0, n2, n3}
  Placeholder = n0
  DayName = n2
  Given = n2
  Fought = n3
  Kills <- MCKills
  SeenBy <- MCSeenBy
  Deltas = {0}
  Corrections = {}
  TickDkps = {0}
  Awards = {}
  TickInterval = 1
  ClockSteps = {1}
  MaxTime = 1
  MaxSeq = 99
  AuctionIds = {}
  Offers = {}
  Amounts = {}
  Attendances = {}
  MainLine = 0
  AltLine = 0
  MaxRoll = 1
  Seeds = {}
  Officers = {o1}
  Job = job
  Imports <- MCImports
  SignUps = {}
  Voice = {{}}
  EventDkp = 0
  MaxClicks = 3
  MaxFaults = 0
PROPERTIES
  NoKillLost
CHECK_DEADLOCK FALSE
