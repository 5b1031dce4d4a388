CONSTANTS
  Tables <- MCTables
  ForTest <- MCForTest
  MinAddr = 256
  MaxKernel = 512
  MaxMemArr = 3
  Small = 80
  Large = 160
  Sizes = {70, 210}
  FillsAtOnce = TRUE
SPECIFICATION MmSpec
INVARIANTS
  HeldIsNotFree
