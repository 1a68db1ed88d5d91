\* Short, word-sized and long names; a table of four slots grows at its third name.
CONSTANTS
  NtMinCap = 4
  NtLoadPct = 70
  HashRange = 16
  Names <- TwoOfEach
  Lengths = {2, 9}
  MaxSerial = 4
  MarksCap = 2
  Edges = {}
SPECIFICATION Spec
INVARIANT AliasesResolve
INVARIANT NamesApart
PROPERTY ReservedNeverGrows
CHECK_DEADLOCK FALSE
