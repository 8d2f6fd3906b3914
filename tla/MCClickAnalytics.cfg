SPECIFICATION Spec
CONSTANTS
  ClickIds = {c1, c2}
  Countries = {1, 2}
  Zones <- SmallZones
  SeedClicks <- OneSeed
  DayLength = 2
  PeriodDays = 3
  WeekDays = 1
  TopLimit = 1
  ClickKinds <- SmallKinds
  CommitDelay = 1
  Latency = 1
  MaxClock = 7
  Null = Null
SYMMETRY Symmetry
INVARIANTS
  TypeOK
  CountsNest
  SectionsAgree
PROPERTIES
  DaysAreExact
