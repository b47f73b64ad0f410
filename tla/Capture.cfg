SPECIFICATION CapSpec
CONSTANTS
  Capacity = 1
  FlowIDs = {f1, f2}
  NoFlow = NoFlow
  NoData = NoData
  StatusCodes = {200, 403}
  PIDs = {7}
  Names = {"curl", "wget"}
  MaxConcurrent = 1
  FailThreshold = 1
  Forbidden = 403
SYMMETRY Symmetric
INVARIANTS CompletedHasResponse RequestKept ExcludedNeverStored AnsweredIsSettled SummaryShowsLookup
PROPERTIES SettledIsFinal
CHECK_DEADLOCK FALSE
