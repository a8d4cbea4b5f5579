\* Two threads, two languages of which one has no tree at first; after
\* undefined behaviour the model stops, hence no deadlock check.
CONSTANTS
  CharBits = 2
  t1 = t1
  t2 = t2
  Threads = {t1, t2}
  Languages <- MCLanguages
  English <- MCEnglish
  Samples <- MCSamples
  Texts <- MCTexts
  Limits = {0, 2}
  Short = 3
  MaxReferences = 2
  MaxTrees = 3
SYMMETRY MCSymmetry
SPECIFICATION Spec
CHECK_DEADLOCK FALSE
INVARIANTS GetsItsTree MapIsInOrder TreesAreOwned DecodesWhatWasEncoded
PROPERTY TreesAreOptimal
