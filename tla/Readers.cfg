SPECIFICATION RdSpec
CONSTANTS
  Capacity = 1
  FlowIDs = {f1, f2}
  NoFlow = NoFlow
  NoData = NoData
  StatusCodes = {403}
  PIDs = {7}
  Names = {"curl"}
  MaxConcurrent = 1
  FailThreshold = 1
  Forbidden = 403
SYMMETRY Symmetric
VIEW LiveState
INVARIANT CompletedReadIsWhole
CHECK_DEADLOCK FALSE
