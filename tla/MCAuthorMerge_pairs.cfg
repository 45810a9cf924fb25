SPECIFICATION MergeSpec
CONSTANTS
  Ops <- OpsMC
  Bases <- BasesMC
  Module = 2
  Objects = {1, 3, 4, 5}
  MaxOps = 4
INVARIANT MergeSymmetric NothingLost RebaseKeeps
CHECK_DEADLOCK FALSE
