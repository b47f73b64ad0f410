SPECIFICATION PgSpec
CONSTANTS
  Capacity = 3
  FlowIDs = {f1, f2, f3, f4, f5}
  NoFlow = NoFlow
  NoData = NoData
  StatusCodes = {200}
  PIDs = {}
  Names = {}
  Limits = {0, 3}
  DefaultLimit = 1
  MaxLimit = 2
SYMMETRY Symmetric
VIEW LiveState
INVARIANTS NoOrphanData PagingMissesNothing
PROPERTIES NoResurrection ImplementsLog
CHECK_DEADLOCK FALSE
