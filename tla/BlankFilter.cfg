SPECIFICATION AlgSpec
CONSTANTS
  Chars <- MCChars
  PathQueries <- None
  ScriptQueries <- None
  HostQueries <- None
  SchemaQueries <- None
  Texts <- MCTexts
  FlowPairs <- None
  BodyPairs <- None
  MaxLines <- MCMaxLines
  FramedBodies <- None
  Payloads <- None
  WireBodies <- None
  PacedBodies <- None
  Throttlings <- None
  FilterQueries <- MCFilterQueries
  NoFilter = NoFilter
  Panic = Panic
INVARIANT BlankMatchesAll
CHECK_DEADLOCK FALSE
