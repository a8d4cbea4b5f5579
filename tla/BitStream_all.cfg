\* The bits: streams of two bytes over memory full of ones.  The memory:
\* stackData of two bytes, streams of up to five.
CONSTANTS
  Room = 2
  Memory <- MCMemory
  Inputs <- MCInputs
  BitValues = {0}
  Sizes = {3, 8}
  Offsets = {8}
  Recopy = FALSE
  StackBytes = 2
  MaxBits = 40
SPECIFICATION StreamSpec
INVARIANTS HoldsWhatWasWritten ReadsWhatWasWritten GrowthKeepsBits FreesWhatItOwns
