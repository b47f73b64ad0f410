SPECIFICATION PrSpec
CONSTANTS
  Platform = "darwin"
  MCP = TRUE
  Failures = TRUE
  Clients = {c1}
INVARIANTS RestoredOnExit StatusTruthful QuietAtTheEnd
PROPERTIES EndingEnds ScreenDraws
CHECK_DEADLOCK FALSE
