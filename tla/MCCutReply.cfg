CONSTANTS
  Clients = {a}
  AppClient = FALSE
  Capacity = 1
  OutputQueue = 1
  MaxBytes = 3
  MaxChunk = 1
  MaxConns = 3
  CutReply = TRUE
SPECIFICATION Spec
INVARIANT ScreenHasNoHole
CHECK_DEADLOCK FALSE
