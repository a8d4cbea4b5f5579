\* Callbacks fire the signal again and register more callbacks on it; after
\* undefined behaviour the model stops, hence no deadlock check.
CONSTANTS
  c1 = c1
  c2 = c2
  Callbacks = {c1, c2}
  Empty = Empty
  IsBool = TRUE
  Reentrant = TRUE
  MaxLen = 3
  MaxDepth = 3
  MaxNested = 1
SPECIFICATION FairSpec
CHECK_DEADLOCK FALSE
INVARIANTS CalledPrefix OnlyGrowthInvalidates CalledInOrder
PROPERTY CallsReturn
