\* Two objects of six cells together; arrays of more than three are large.
CONSTANTS
  Objects = {a, b}
  Items = {1, 2}
  First = 2
  Large = 3
  MaxArray = 4
  MaxCells = 6
SPECIFICATION ArraysSpec
INVARIANTS FaultHasCause
PROPERTIES LossHasCause ImplementsSequenceStore
SYMMETRY Symmetry
\* After undefined behaviour nothing is said.
CHECK_DEADLOCK FALSE
