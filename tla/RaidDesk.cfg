SPECIFICATION DeskSpec
CONSTANTS
  Players = {p1, p2}
  Nobody = Nobody
  NoRaid = NoRaid
  Characters = {}
  RaidIds = {r1, r2}
  Names = {n0, n2, n3}
  Placeholder = n0
  DayName = n2
  Given = n2
  Fought = n3
  Kills <- MCKills
  SeenBy <- MCSeenBy
  Deltas <- MCDeltas
  Corrections <- Minus2
  TickDkps = {1}
  Awards = {1}
  TickInterval = 1
  ClockSteps = {1}
  MaxTime = 1
  MaxSeq = 99
  AuctionIds = {}
  Offers = {}
  Amounts = {}
  Attendances = {}
  MainLine = 0
  AltLine = 0
  MaxRoll = 1
  Seeds = {}
  Officers = {o1}
  Job = job
  Imports <- MCImports
  SignUps = {p1, p2}
  Voice = {{p1}}
  EventDkp = 1
  MaxClicks = 3
  MaxFaults = 1
INVARIANTS
  OneActiveRaid
  AwardsMatchAttendance
  TicksApart
PROPERTIES
  AttendanceKept
  NightsCatchUp
CHECK_DEADLOCK FALSE
