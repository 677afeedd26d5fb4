CONSTANTS
  Mounts <- MCMounts
  sizes <- MCSizes
  MaxMounts = 2
  Ids = {}
  Forests <- MCForests
  NoFs = NoFs
SPECIFICATION DisksSpec
PROPERTY WrappedLinesAreRead
CHECK_DEADLOCK FALSE
