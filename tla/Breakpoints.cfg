SPECIFICATION BPLiveSpec
CONSTANTS
  Flows = {1, 2}
  MaxPauses = 2
  SubCap = 1
INVARIANTS OneWayOn EditsReachEditedPause
PROPERTIES ImplementsPauses AnsweredPauseEnds
CHECK_DEADLOCK FALSE
