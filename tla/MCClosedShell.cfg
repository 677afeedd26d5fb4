CONSTANTS
  TtySize = 1
  QueueSize = 1
  MaxWritten = 2
  MaxTyped = 2
SPECIFICATION ShellSpec
PROPERTY ClosedShellEnds
CHECK_DEADLOCK FALSE
