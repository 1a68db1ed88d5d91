\* Two document parses with every allocation failing but the two of the lazy wrapper; streams
\* of one or two documents under the four event front ends, cut into up to four chunks at
\* every place.
CONSTANTS
  MayFail = {"eng", "tree", "words", "doc_eager", "box", "jsonbox", "replay"}
  Calls = 2
  Nodes = {"plain", "apostrophe", "squote", "dquote", "flow", "flowkey", "crcomment", "nel",
           "ls", "tagged", "block", "malformed"}
  Seconds = {"plain", "squote"}
  MaxFeeds = 4
  Edges = {}
SPECIFICATION EntrySpec
INVARIANT OwnedOnce
INVARIANT BytesOutliveViews
INVARIANT DeliversInOrder
INVARIANT AnswersTruly
 
PROPERTY Settles
CHECK_DEADLOCK FALSE
