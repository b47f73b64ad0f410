SPECIFICATION SCSpec
CONSTANTS
  N = 2
  URLs = {u1, u2}
  Headers = {h1}
  Supported = {"gzip"}
  Encodings = {"gzip", "compress"}
CHECK_DEADLOCK FALSE
INVARIANTS FailedLeaveNoTrace WireTruthful
PROPERTY AnsweredStaysAnswered
