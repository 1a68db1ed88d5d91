\* Documents of six JSON tokens two collections deep, numbers and strings of five characters;
\* texts of five to eight bytes in chunks of four and two; patterns of five or six tokens.
SPECIFICATION TextSpec
CONSTANTS
  Short = 1
  Digits8 = 2
  UMax = 255
  IMax = 127
  Window = 2
  Rounds = 2
  Depth = 2
  JsonTokens = {"{", "}", "[", "]", ",", ":", "str", "long", "wide", "ill", "num", "bad", "lit", "x", "nl", "tab"}
  MaxTokens = 6
  MaxChars = 5
  AChunk = 4
  NChunk = 2
  Batch = 0
  U16 = 3
  Swar = 2
  Cap = 4
  Block = 4
  Nibble = 3
  Group = 2
  MaxFind = 8
  MaxStats = 5
  MaxQuote = 7
  MaxLine = 7
  MaxStop = 5
  MaxStage = 6
  Wrap = 4
  CacheMax = 2
  MaxCore = 5
  MaxBracket = 5
  MaxCount = 6
  MaxEscape = 5
  MaxHistory = 3
 
 
INVARIANT JsonLexersAgree
INVARIANT KernelsAgree
 
CHECK_DEADLOCK FALSE
