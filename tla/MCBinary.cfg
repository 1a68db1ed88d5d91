\* Marshal streams of five tokens over the linking alphabet and four over the one of keys,
\* documents of seven events with anchors, four over every kind of scalar, eight with equal keys,
\* integers of one limb; CBOR inputs of three tokens over the wide alphabet and six over the
\* narrow one, sequences of four, authored mappings of three pairs.
SPECIFICATION BinarySpec
CONSTANTS
  MaxLimbs = 1
  MjDepth = 4
  CmDepth = 2
  VMaxDepth = 4
  SmallMax = 16384
  MinBigDigits = 4
  MaxBigDigits = 9
  BigLimbs = 2
  DupCap = 2
  MaxStream = 5
  MaxKeys = 4
  MaxGraph = 7
  MaxScalars = 4
  MaxDup = 8
  MaxLong = 700
  Edges = {}
  MaxDepth = 2
  MaxLinks = 2
  MaxTokens = 3
  MaxSeqTokens = 4
  MaxPairs = 3
  HalfExp = 2
  HalfMan = 2
  DoubleExp = 4
  DoubleMan = 5
  CborEdges = {}
INVARIANT CborDecodes
INVARIANT CborRoundTrips
 
INVARIANT MarshalWrites
 
CHECK_DEADLOCK FALSE
