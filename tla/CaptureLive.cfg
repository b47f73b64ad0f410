SPECIFICATION CapLiveSpec
CONSTANTS
  Capacity = 1
  FlowIDs = {f1, f2}
  NoFlow = NoFlow
  NoData = NoData
  StatusCodes = {403}
  PIDs = {7}
  Names = {"curl"}
  MaxConcurrent = 1
  FailThreshold = 1
  Forbidden = 403
PROPERTIES FlowsEnd EveryResolutionEnds
CHECK_DEADLOCK FALSE
