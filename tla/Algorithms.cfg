SPECIFICATION AlgSpec
CONSTANTS
  Chars <- MCChars
  PathQueries <- MCPathQueries
  ScriptQueries <- MCScriptQueries
  HostQueries <- MCHostQueries
  SchemaQueries <- MCSchemaQueries
  Texts <- MCTexts
  FlowPairs <- MCFlowPairs
  BodyPairs <- MCBodyPairs
  MaxLines <- MCMaxLines
  FramedBodies <- MCFramedBodies
  Payloads <- MCPayloads
  WireBodies <- MCWireBodies
  PacedBodies <- MCPacedBodies
  Throttlings <- MCThrottlings
  FilterQueries <- MCFilterQueries
  NoFilter = NoFilter
  Panic = Panic
INVARIANTS WildcardIsGlob MatchIsSound HostPatternsAreGlobs DiffIsFaithful EditKeepsOtherFrames NothingIsLost PaceIsBandwidth
CHECK_DEADLOCK FALSE
