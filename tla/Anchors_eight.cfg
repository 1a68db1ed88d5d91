\* Two names of eight bytes, the width of the word short names are kept in.
CONSTANTS
  NtMinCap = 4
  NtLoadPct = 70
  HashRange = 16
  Names <- TwoOfEach
  Lengths = {8}
  MaxSerial = 4
  MarksCap = 2
  Edges = {}
SPECIFICATION Spec
INVARIANT AliasFindsLast
CHECK_DEADLOCK FALSE
