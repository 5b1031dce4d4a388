\* Three callbacks at once: one of each source, and one interrupted by its own kind.
CONSTANTS
  Top = 84
  MaxNest = 3
  ClearDF = FALSE
  OthersSet = FALSE
SPECIFICATION IrqSpec
INVARIANTS
  PicksUpBack
CHECK_DEADLOCK FALSE
