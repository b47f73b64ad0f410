SPECIFICATION DdSpec
CONSTANTS
  Procs = {p1, p2}
  MaxRuns = 5
  Crashes = TRUE
INVARIANTS OneToken SettingsKept OneCA
CONSTRAINT Apart
VIEW View
SYMMETRY Alike
CHECK_DEADLOCK FALSE
