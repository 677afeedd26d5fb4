CONSTANTS
  Clients = {a}
  AppClient = TRUE
  Capacity = 1
  OutputQueue = 1
  MaxBytes = 2
  MaxChunk = 1
  MaxConns = 2
  CutReply = FALSE
SPECIFICATION FairSpec
PROPERTIES
  SupersededIsClosed
  OutputReachesOwner
CHECK_DEADLOCK FALSE
