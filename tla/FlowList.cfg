SPECIFICATION FLSpec
CONSTANTS
  MaxFlows = 3
  Capacity = 2
  FlatLimit = 2
  Heights = {6, 7}
  HostOf <- MCHostOf
  ProcessOf <- MCProcessOf
  StartedAt <- MCStartedAt
INVARIANTS CursorVisible PanicOnlyBelow RowsAreOfGrouping
VIEW LiveState
CHECK_DEADLOCK FALSE
