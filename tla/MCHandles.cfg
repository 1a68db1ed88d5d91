\* Streams of five lines of seven kinds; json-c histories of three wrappers and seven nodes.
CONSTANTS
  MaxLines = 5
  Kinds = {"start", "end", "skip", "dir", "text", "raw", "bad"}
  MayFail = {"gate", "engine", "slice"}
  EarlyFree = FALSE
  MaxWrappers = 3
  MaxNodes = 7
  Edges = {}
SPECIFICATION HandlesSpec
INVARIANT KeepsValidDocuments
INVARIANT FramesAndSlices
INVARIANT WrappersStayValid
INVARIANT ReadsAsBuilt
INVARIANT ReleasedOnce
PROPERTY Progress
CHECK_DEADLOCK FALSE
