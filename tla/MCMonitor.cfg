CONSTANTS
  None = None
  Interval = 1
  LiveChoices <- MCLiveChoices
  GatherTime = 1
  ScriptTime = 1
  PushList <- MCPushList
  Times = 1
  Window = 1
  SendTime = 1
  MaxRate = 1
  MaxAlerts = 1
  MaxNow = 3
  MaxChanges = 1
  Manifest <- MCManifest
  Extended = {"smart"}
  Disabled = {{}, {"battery"}}
  BuiltInOutputs <- MCBuiltInOutputs
  CustomOutputs <- MCCustomOutputs
  MaxOutput = 1
  Strays = {"s"}
  Directories <- MCDirectories
  NoDirectory = NoDirectory
  NoSection = NoSection
  MaxInstalls = 1
  Writers = {w1, w2}
  Names <- MCNames
  Texts <- MCTexts
  Torn = "torn"
  Lists <- MCLists
  Missing = Missing
  Nobody = Nobody
  SideSticks = FALSE
  Callers = {c1, c2}
  Runs = {r1, r2, r3}
  MaxReaping = 2
  MaxSize = 1
  Mounts <- MCMounts
  sizes <- MCSizes
  MaxMounts = 2
  Ids = {1, 2, 3, 4}
  Forests <- MCForests
  NoFs = NoFs
  RuleLists <- MCRuleLists
  Readings <- MCReadings
  KILO = 2
  NoReading = NoReading
  Growths = {0, 3}
  Loads <- MCLoads
  CoreLists <- MCCoreLists
  VelocityPoints = 2
  MinuteSecs = 1
  DaySecs = 3
  MinMinutes = 2
  MaxMinutes = 4
  MinPoints = 2
  MAX_POINTS = 3
  Asked <- MCAsked
  MaxSeconds = 3
  MaxResets = 1
SPECIFICATION MonitorSpec
INVARIANTS
  NoSpikeAfterReset
  QuotaHolds
  SectionsAreExact
  SlotsAreExact
  DisksCountOnce
  AlertsAreTrue
  HistoriesAreTrue
PROPERTIES
  ExtendedIsFresh
  ImplementsStore
  AnswersAreTrue
CHECK_DEADLOCK FALSE
