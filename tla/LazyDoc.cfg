CONSTANTS
  t1 = t1
  t2 = t2
  Threads = {t1, t2}
  s = s
  m = m
  a = a
  b = b
  k = k
  v = v
  Kids <- MCKids
  Seqs <- MCSeqs
  TextOf <- MCTextOf
  Asked = {"k", "x"}
  NULL = NULL
  MayFail = {"replay", "arena", "block", "index"}
  BlockSize = 2
  MaxBlocks = 2
SPECIFICATION Spec
SYMMETRY Interchangeable
INVARIANT OneOfEach
INVARIANT AnswersRight
PROPERTY HandlesStable
