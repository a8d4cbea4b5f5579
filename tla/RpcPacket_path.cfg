\* An RPC of up to two values through up to two detours; it ends when the game
\* or a callback is done with it, hence no deadlock check.
CONSTANTS
  Short = 4
  Long = 8
  Grid = 5
  Items <- MCItems
  Replacements <- MCReplacements
  Ids <- MCIds
  CountBytes = 2
  MaxItems = 2
  MaxReads = 3
  MaxPasses = 2
SPECIFICATION Spec
CHECK_DEADLOCK FALSE
INVARIANTS SeesWhatWasWritten PassedOnInOrder ReadsGiveWhatWasWritten ShortReadsAreRefused
