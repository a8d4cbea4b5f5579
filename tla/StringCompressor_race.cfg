\* As StringCompressor_threads: threads that look up two languages.
CONSTANTS
  CharBits = 2
  t1 = t1
  t2 = t2
  Threads = {t1, t2}
  Languages <- MCLanguages
  English <- MCEnglish
  Samples <- MCSamples
  Texts <- MCTexts
  Limits = {0, 2}
  Short = 3
  MaxReferences = 2
  MaxTrees = 3
SYMMETRY MCSymmetry
SPECIFICATION Spec
CHECK_DEADLOCK FALSE
INVARIANT ThreadsGetTheirTree
