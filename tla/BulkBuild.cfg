CONSTANTS
  MaxNodes = 6
  Wrap32 = 64
  Wrap16 = 64
  MaxDepth = 3
  Text = {"", "k"}
  Empty = ""
  MaxEntries = 7
  MaxLater = 3
  MaxBuilds = 2
  Liberties = {}
SPECIFICATION Spec
INVARIANT BuildsTheList
 
PROPERTY EarlierDocumentsKept
CHECK_DEADLOCK FALSE
