CONSTANTS
  Addrs = {addr}
  Names = {user, other}
  Accounts = {user}
  Logins = {x, y}
  FreeAttempts = 1
  BaseDelay = 1
  MaxDelay = 2
  EntryTtl = 2
  PruneThreshold = 1
  Permits = 1
  MaxCount = 2
  Slots = {q1}
  Clients = {w1}
  full_access_default = TRUE
  Settings <- MCSettings
  MaxEdits = 1
  MaxStarts = 2
  MaxTokens = 2
  Lifetime = 1
  MaxNow = 1
  Files = {"f", "g"}
  Destinations = {"f"}
  Uploads = {1, 2}
  Readers = {d1}
  Offsets = {0, 1}
  Lengths = {2, 3}
  Limit = 2
  Modes = {600, 644}
  Umask = 644
  Pids = {1}
  Requested <- MCRequested
  Configured <- MCConfigured
  Trees <- MCTrees
  Planted <- MCPlanted
  Callers = {f1}
  MaxLinks = 3
  MaxTarget = 2
  MaxDepth = 3
  MaxMeddling = 1
  Nowhere = Nowhere
  PipeSize = 1
  Cap = 1
  MaxInput = 2
  Programs <- MCPrograms
  TtySize = 1
  QueueSize = 2
  MaxWritten = 4
  MaxTyped = 2
  Dials = {h1, h2}
  HostKeys = {k1, k2}
  Unpinned = Unpinned
  MaxReplaced = 2
  MaxDeleted = 1
  MaxRounds = 1
  Agents = {1, 2, 3}
  Chosen = 9
  NoFile = NoFile
SPECIFICATION RequestsSpec
INVARIANTS
  ReservationsAreExact
  AccessStaysOff
  NewestTokenReads
  FilesAreWhole
  ReadsAreOneVersion
  StaysInRoots
  AnswersAreHonest
  ExitIsLast
  OneKeyIsTrusted
  SecretsAreSound
PROPERTIES
  FailuresAreRemembered
SYMMETRY Symmetry
CHECK_DEADLOCK FALSE
