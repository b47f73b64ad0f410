SPECIFICATION SFSpec
CONSTANTS
  Files = {1, 2}
  Handlers = {h1}
  MaxCalls = 3
CHECK_DEADLOCK FALSE
INVARIANTS EngineMatchesDisk KnownIDsWork
VIEW View
