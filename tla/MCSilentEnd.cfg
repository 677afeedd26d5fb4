CONSTANTS
  Clients = {a}
  AppClient = FALSE
  Capacity = 1
  OutputQueue = 1
  MaxBytes = 1
  MaxChunk = 1
  MaxConns = 2
  CutReply = FALSE
SPECIFICATION FairSpec
PROPERTY OwnerLearnsShellIsGone
CHECK_DEADLOCK FALSE
