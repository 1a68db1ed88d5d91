\* Edits of a mixed pool of five nodes with indexed reads; nested collections grown two levels
\* deep with every kind of node created on the way.
CONSTANTS
  MaxNodes = 5
  Wrap32 = 64
  Wrap16 = 64
  MaxDepth = 3
  GrowDepth = 2
  Text = {"", "k"}
  Empty = ""
  Start <- MixedPool
  Liberties = {"graft"}
  Makes = {}
  MaxRoots = 0
  Reads = {"at"}
SPECIFICATION TreeSpec
INVARIANT GrownCapped
INVARIANT ChainsSound
 
PROPERTY ImplementsOrderedTree
CHECK_DEADLOCK FALSE
