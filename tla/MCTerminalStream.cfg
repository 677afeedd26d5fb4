CONSTANTS
  Clients = {a, b}
  AppClient = FALSE
  Capacity = 1
  OutputQueue = 1
  MaxBytes = 3
  MaxChunk = 1
  MaxConns = 2
  CutReply = FALSE
SPECIFICATION Spec
INVARIANTS
  ScreenHasNoHole
PROPERTIES
  ReaperSparesTheAttached
  StaleConnectionsDoNotUnseat
  ImplementsView
CHECK_DEADLOCK FALSE
