CONSTANTS
  None = None
  NoHolder = NoHolder
  Torn = Torn
  Savers = {w1, w2}
  Values = {1, 2}
  InitialFiles <- MCInitialFiles
  MaxBackups = 1
  MaxSaves = 2
  MaxFaults = 1
  Tables <- MCTables
  Iso = {"system_metrics"}
  Floors = {"access_log"}
  Days <- MCDays
  HoursPerDay = 2
  MinAudit = 3
  PageRows = 2
  MaxPages = 1
  MaxHour = 3
  MaxRows = 6
  Conns = {k1, k2}
  Secure = {k1}
  MaxHandlers = 2
  MaxSessions = 1
SPECIFICATION LongRunSpec
INVARIANTS
  SavesSurvive
  LiveFollowsFile
PROPERTIES
  AgentComesBack
  CapIsMet
  CleanupEnds
  TurningOffEndsLocalShells
  UnownedShellsEnd
CHECK_DEADLOCK FALSE
