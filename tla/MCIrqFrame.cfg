\* Three callbacks at once: one of each source, and one interrupted by its own kind.
CONSTANTS
  Top = 84
  MaxNest = 3
  ClearDF = TRUE
  OthersSet = FALSE
SPECIFICATION IrqSpec
INVARIANTS
  StacksKept
PROPERTIES
  ResumesIntact
