CONSTANTS
  Totals = {0, 1, 2, 3, 4, 5, 6, 7, 8, 9, 10}
  HostCaps = {0, 1, 3, 4, 7, 11, 12}
  Est = 3
  Watermark = 2
  Wrap = 1000
  MayFail = {"tree", "names", "scratch", "buffer", "grow", "sink"}
  Short = TRUE
SPECIFICATION Spec
 
INVARIANT StaysInBounds
INVARIANT CountKeepsRunning
PROPERTY Returns
