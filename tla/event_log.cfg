CONSTANTS
  Servers = {a1, a2}
  Items = {task}
  MaxEvents = 5
  Newline = Newline
  Torn = Torn
  Err = Err
  NoReport = NoReport
  Absent = Absent
  Garbled = Garbled
  Roots = {"a", "b"}
  Sessions = {"s1", "s2"}
  Placements <- MCPlacements
  Ttl = 1
  MaxClock = 2
  MaxVersion = 1
  Kinds = {"a", "b"}
  MaxEntries = 3
  MaxFileEdits = 2
  Regions = {"r1", "r2", "r3"}
  TierIds = {"t1", "t2"}
  Limit = 2
  WindowDays = 3
  LastDay = 5
  Strategies = {"open", "hard", "metered", "time-based", "preview"}
  Ids = {"x", "y"}
  Caps = {"read", "net"}
  TaskIds = {1, 2, 3}
  Cap = 1
  LastSecond = 2
  Operators = {"o1", "o2"}
  MaxTransitions = 3
  MaxFailures = 2
  PhaseList <- MCPhaseList
  Outcomes <- MCOutcomes
  Policies <- MCPolicies
  Modes = {"poc", "production"}
  MaxCommands = 2
  Commands = {"c1", "c2"}
  NoTier = NoTier
  NotLoaded = NotLoaded
  NotYet = NotYet
SPECIFICATION MachinesSpec
INVARIANTS TypeOK LatestWins AckedReplays
INVARIANTS PartsTypeOK EachPhaseOnce RunnersAgree PolicyIsApplied NotedIsSealed EveryRegionHasItsTurn NoStageSkipped GrantIsLastGiven StaleByLessThanTtl BriefIsHonest ChainIsHistory
PROPERTIES DriveReturns WaitingOpensOnlyMeters OwnTextIsKept
CHECK_DEADLOCK FALSE
